---- MODULE Spec2Model ----
(***************************************************************************)
(* Disc Golf Tracker: the local store, the pending-sync queue and its      *)
(* replay against the Sheets gateway (src/js/sheets-api.js, the Storage    *)
(* module in src/js/statistics.js) and the round handlers of src/js/app.js *)
(* that feed them.                                                         *)
(*                                                                         *)
(* Rows are abstracted to the fields the sync layer reads: ids, the owning *)
(* ids and the position in a course or round.  The round in play keeps its *)
(* holes' par and its entries' throws, approaches and putts; a form field  *)
(* is an empty, an integer or a non-numeric text.  A remote sheet is a     *)
(* bag of rows: createRow appends, so the same row can be there twice.     *)
(* A gateway request either succeeds (its effect is in the sheet) or       *)
(* throws (no effect); it can succeed only while the browser is online.    *)
(***************************************************************************)
EXTENDS Integers, Sequences, FiniteSets, Bags, TLC

\* ---------------------------------------------------------------- bounds
MaxRounds == 1      \* rounds started in one behaviour
MaxHoles == 2       \* holes of a course (hole_count)
MaxDrains == 2      \* drain passes started in one behaviour
MaxCopies == 2      \* copies of one row a remote sheet is followed up to
MaxQueue == 3       \* operations enqueued in one behaviour of SpecQueue
MaxSessions == 2    \* rounds started in one behaviour of SpecSession
MaxIds == 2         \* record ids of a collection of SpecStore
MaxEntries == 4     \* entries in the local scores collection of SpecStats

\* -------------------------------------------------------------- entities
\* a new course is created by the round that defines it and takes its number
\* (course 0 is a course of an earlier session, already in the spreadsheet)
CourseIds == 0..(IF MaxRounds > MaxSessions THEN MaxRounds ELSE MaxSessions)

Course(c, hc) == [course_id |-> c, hole_count |-> hc]
Hole(c, n) == [course_id |-> c, hole_number |-> n]
RoundRow(r, c) == [round_id |-> r, course_id |-> c]
Score(r, n) == [round_id |-> r, hole_number |-> n]
LastPlayed(c, d) == [courseId |-> c, date |-> d]

HolesOf(c, hc) == [n \in 1..hc |-> Hole(c, n)]
ScoresOf(r, k) == [n \in 1..k |-> Score(r, n)]

Range(s) == {s[i] : i \in DOMAIN s}

\* the operation kinds of SheetsAPI.processPendingSync's switch that append
\* rows; the other two, updateRound and updateCourseLastPlayed, rewrite one
CreateTypes == {"saveCourse", "saveHoles", "saveRound", "saveScores"}

\* operation.data is kept as a sequence of rows for every kind
Op(t, rows) == [type |-> t, data |-> rows]

SheetOf(t) ==
    CASE t = "saveCourse" -> "Courses"
      [] t = "saveHoles" -> "Holes"
      [] t = "saveRound" -> "Rounds"
      [] t = "updateRound" -> "Rounds"
      [] t = "saveScores" -> "Scores"
      [] t = "updateCourseLastPlayed" -> "Courses"

VARIABLES
    isOnline,       \* App.state.isOnline (= navigator.onLine after each event)
    db,             \* Storage.db: "idb" (IndexedDB) or "ls" (localStorage fallback)
    local,          \* the local collections courses, holes, rounds, scores
    pendingSync,    \* localStorage dgtracker_pending_sync
    remote,         \* the spreadsheet: a bag of rows per sheet, last_played per course
    passes,         \* in-flight SheetsAPI.processPendingSync calls
    round,          \* App.state.currentRound
    stored,         \* localStorage dgtracker_current_round
    screen,         \* App.state.currentScreen
    courses,        \* App.state.courses (the cache loadCachedData fills)
    roundsStarted,  \* rounds created so far (Utils.generateId never repeats)
    enqueued,       \* operations enqueued directly so far (SpecQueue)
    resumeBtn,      \* the home screen's resume button is shown
    last            \* what the step just taken returned to its caller

vars == <<isOnline, db, local, pendingSync, remote, passes, round, stored,
          screen, courses, roundsStarted, enqueued, resumeBtn, last>>

appVars == <<round, stored, screen, courses, roundsStarted, local, db,
            resumeBtn>>

Nothing == [kind |-> "none"]

\* ------------------------------------------------------- remote gateway
EmptyRemote ==
    [Courses |-> EmptyBag, Holes |-> EmptyBag, Rounds |-> EmptyBag,
     Scores |-> EmptyBag, lastPlayed |-> [c \in CourseIds |-> 0]]

\* SheetsAPI.createRow: the gateway appends the row to the sheet
CreateRow(rem, sheet, row) == [rem EXCEPT ![sheet] = @ (+) SetToBag({row})]

RECURSIVE CreateRows(_, _, _, _)
CreateRows(rem, sheet, rows, k) ==
    IF k = 0 THEN rem
    ELSE CreateRow(CreateRows(rem, sheet, rows, k - 1), sheet, rows[k])

Copies(rem, sheet, row) ==
    IF BagIn(row, rem[sheet]) THEN CopiesIn(row, rem[sheet]) ELSE 0

\* a sheet is followed up to MaxCopies copies of a row
RoomFor(rem, sheet, rows, k) ==
    \A j \in 1..k : Copies(rem, sheet, rows[j]) < MaxCopies

\* The outcomes of saveCourse / saveHoles / saveRound / saveScores: one
\* createRow per element, in order; the first k succeed, and when k is not
\* all of them the next one throws and the method with it.
SaveRows(rem, sheet, rows, online) ==
    { [remote |-> CreateRows(rem, sheet, rows, k),
       outcome |-> IF k = Len(rows) THEN "ok" ELSE "threw",
       calls |-> IF k = Len(rows) THEN k ELSE k + 1] :
      k \in { j \in 0..Len(rows) :
                /\ (j > 0 => online)
                /\ RoomFor(rem, sheet, rows, j) } }

\* SheetsAPI.updateRound: getRows, findIndex by round_id, then updateRow.
\* A round that is not in the sheet makes it return false without a write.
UpdateRound(rem, row, online) ==
    LET found == \E x \in BagToSet(rem.Rounds) : x.round_id = row.round_id
    IN  { [remote |-> rem, outcome |-> "threw", calls |-> 1] }
        \cup (IF ~online THEN {}
              ELSE IF ~found
                   THEN { [remote |-> rem, outcome |-> "noop", calls |-> 1] }
                   ELSE { [remote |-> rem, outcome |-> "ok", calls |-> 2],
                          [remote |-> rem, outcome |-> "threw", calls |-> 2] })

\* SheetsAPI.updateCourseLastPlayed: the same shape on the Courses sheet
UpdateCourseLastPlayed(rem, row, online) ==
    LET found == \E x \in BagToSet(rem.Courses) : x.course_id = row.courseId
    IN  { [remote |-> rem, outcome |-> "threw", calls |-> 1] }
        \cup (IF ~online THEN {}
              ELSE IF ~found
                   THEN { [remote |-> rem, outcome |-> "noop", calls |-> 1] }
                   ELSE { [remote |-> [rem EXCEPT !.lastPlayed[row.courseId] = row.date],
                           outcome |-> "ok", calls |-> 2],
                          [remote |-> rem, outcome |-> "threw", calls |-> 2] })

\* the switch of SheetsAPI.processPendingSync: what replaying one operation
\* can do to the spreadsheet, and whether the call threw
Replay(rem, op, online) ==
    CASE op.type \in CreateTypes -> SaveRows(rem, SheetOf(op.type), op.data, online)
      [] op.type = "updateRound" -> UpdateRound(rem, op.data[1], online)
      [] op.type = "updateCourseLastPlayed" ->
            UpdateCourseLastPlayed(rem, op.data[1], online)

\* ------------------------------------------------------ pending queue
\* Storage.addPendingSync: push onto the stored array
AddPendingSync(q, op) == Append(q, op)

RECURSIVE AddAll(_, _)
AddAll(q, ops) ==
    IF ops = <<>> THEN q ELSE AddAll(AddPendingSync(q, Head(ops)), Tail(ops))

NoPass == [active |-> FALSE, returned |-> FALSE]
DonePass == [active |-> FALSE, returned |-> TRUE]

PassIds == 1..MaxDrains
FreePass == {p \in PassIds : passes[p] = NoPass}
InFlight == {p \in PassIds : passes[p].active}

\* (mutant: the failed operation is put in front)
PushFailed_Unshift(failed, op) == <<op>> \o failed

\* failed.push(operation) in the catch block
PushFailed(failed, op) == Append(failed, op)

\* (mutant: the pass reports success whatever failed)
DrainResult_AlwaysTrue(failed) == TRUE

\* return failed.length === 0
DrainResult(failed) == failed = <<>>

\* (mutant: the loop walks the queue from its end)
NextOp_FromEnd(ps) == ps.pending[Len(ps.pending) - ps.i]

\* const operation = pending[i], i counting from 0
NextOp(ps) == ps.pending[ps.i + 1]

\* What a returned pass did: the queue it read, the operations it sent to
\* the gateway in the order sent, how each call ended ("ok": the write was
\* made; "noop": the method returned without a write; "threw"), the number
\* of gateway requests, and the value returned.
DrainReturn(pending, sent, outcomes, calls, failed) ==
    [kind |-> "drain", pending |-> pending, sent |-> sent,
     outcomes |-> outcomes, calls |-> calls, result |-> DrainResult(failed)]

\* SheetsAPI.processPendingSync up to its first await: read the queue;
\* an empty queue returns true at once, otherwise the pass is in flight
StartPass ==
    IF pendingSync = <<>>
    THEN /\ last' = DrainReturn(<<>>, <<>>, <<>>, 0, <<>>)
         /\ UNCHANGED passes
    ELSE /\ FreePass # {}
         /\ LET p == CHOOSE x \in FreePass : \A y \in FreePass : x <= y
            IN passes' = [passes EXCEPT ![p] =
                 [active |-> TRUE, returned |-> FALSE, pending |-> pendingSync,
                  i |-> 0, failed |-> <<>>, sent |-> <<>>, outcomes |-> <<>>,
                  calls |-> 0]]
         /\ last' = Nothing

\* One turn of the loop: the awaited call for operation i+1 settles.  After
\* the last operation the pass writes the failed operations back as the
\* queue and returns, in the same turn.
DrainStep(p) ==
    /\ passes[p].active
    /\ LET ps == passes[p]
           op == NextOp(ps)
       IN \E res \in Replay(remote, op, isOnline) :
            LET failed == IF res.outcome = "threw"
                          THEN PushFailed(ps.failed, op) ELSE ps.failed
                outcomes == Append(ps.outcomes, res.outcome)
                sent == Append(ps.sent, op)
                calls == ps.calls + res.calls
            IN /\ remote' = res.remote
               /\ IF ps.i + 1 < Len(ps.pending)
                  THEN /\ passes' = [passes EXCEPT ![p] =
                              [ps EXCEPT !.i = ps.i + 1, !.failed = failed,
                                         !.sent = sent, !.outcomes = outcomes,
                                         !.calls = calls]]
                       /\ last' = Nothing
                       /\ UNCHANGED pendingSync
                  ELSE /\ passes' = [passes EXCEPT ![p] = DonePass]
                       /\ pendingSync' = failed
                       /\ last' = DrainReturn(ps.pending, sent, outcomes, calls,
                                               failed)
    /\ UNCHANGED <<isOnline, enqueued, appVars>>

NoRound == [round_id |-> 0]

\* a course played in an earlier session: saved, synced and cached
OldCourse == Course(0, MaxHoles)
OldHoles == Range(HolesOf(0, MaxHoles))

\* The app right after App.init: either a first use (nothing stored, an
\* empty spreadsheet) or a later session with one synced course.
Init ==
    /\ isOnline \in BOOLEAN
    /\ db \in {"idb", "ls"}
    /\ \E known \in BOOLEAN :
         /\ local = [courses |-> IF known THEN {OldCourse} ELSE {},
                     holes |-> IF known THEN OldHoles ELSE {},
                     rounds |-> {}, scores |-> {}]
         /\ remote = [EmptyRemote EXCEPT
                        !.Courses = IF known THEN SetToBag({OldCourse}) ELSE EmptyBag,
                        !.Holes = IF known THEN SetToBag(OldHoles) ELSE EmptyBag]
         /\ courses = IF known THEN {OldCourse} ELSE {}
    /\ pendingSync = <<>>
    /\ passes = [p \in PassIds |-> NoPass]
    /\ round = NoRound
    /\ stored = NoRound
    /\ screen = "home"
    /\ roundsStarted = 0
    /\ enqueued = 0
    /\ resumeBtn = FALSE
    /\ last = Nothing

\* --------------------------------------------- the queue driven directly
\* operations a caller may enqueue (one course, its holes, one round)
QueueOps ==
    { Op("saveCourse", <<Course(1, MaxHoles)>>),
      Op("saveHoles", HolesOf(1, MaxHoles)),
      Op("saveRound", <<RoundRow(1, 1)>>),
      Op("updateRound", <<RoundRow(1, 1)>>),
      Op("saveScores", ScoresOf(1, MaxHoles)),
      Op("updateCourseLastPlayed", <<LastPlayed(1, 1)>>) }

Enqueue(op) ==
    /\ enqueued < MaxQueue
    /\ enqueued' = enqueued + 1
    /\ pendingSync' = AddPendingSync(pendingSync, op)
    /\ last' = Nothing
    /\ UNCHANGED <<isOnline, remote, passes, appVars>>

\* the caller serialises its drains (one pass at a time)
ProcessPendingSync ==
    /\ InFlight = {}
    /\ StartPass
    /\ UNCHANGED <<isOnline, pendingSync, remote, enqueued, appVars>>

NextQueue ==
    \/ \E op \in QueueOps : Enqueue(op)
    \/ ProcessPendingSync
    \/ \E p \in PassIds : DrainStep(p)

\* the queue on its own: a first use, online, on the IndexedDB backend
InitQueue ==
    /\ Init
    /\ isOnline
    /\ db = "idb"
    /\ courses = {}

SpecQueue == InitQueue /\ [][NextQueue]_vars


\* ------------------------------------------------------- local store
\* Storage.put: upsert by id (a record here is determined by its id)
Put(coll, item) == coll \cup {item}

\* Storage.putMany: IndexedDB puts each item; the localStorage fallback
\* overwrites the whole collection with the items
PutMany(backend, coll, items) ==
    IF backend = "idb" THEN coll \cup items ELSE items

\* ------------------------------------------------------ round session
\* The text of a form input: empty, the decimal text of an integer, or
\* text that holds no number.
Blank == [k |-> "empty", n |-> 0]
Junk == [k |-> "junk", n |-> 0]
Txt(n) == [k |-> "int", n |-> n]

\* parseInt(text, 10): <<n>>, or <<>> for NaN
ParseInt(t) == IF t.k = "int" THEN <<t.n>> ELSE <<>>

\* parseInt(text, 10) || d: NaN and 0 are falsy
OrElse(p, d) == IF p = <<>> \/ p[1] = 0 THEN d ELSE p[1]

\* a recorded sub-value: null, NaN or a number
Null == [k |-> "null", n |-> 0]
NaN == [k |-> "nan", n |-> 0]
Num(n) == [k |-> "num", n |-> n]

\* what the player has in the form when a scoring handler runs
Input(throws, approaches, putts, par) ==
    [throws |-> throws, approaches |-> approaches, putts |-> putts, par |-> par]

FieldError(field, message) == [field |-> field, message |-> message]

\* (mutant: a throws of 0 is let through)
ThrowsErrors_ZeroOk(t) ==
    LET p == ParseInt(t)
    IN IF p = <<>> \/ p[1] < 0
       THEN << FieldError("throws", "Throws must be at least 1") >>
       ELSE IF p[1] > 20
       THEN << FieldError("throws", "Throws cannot exceed 20") >>
       ELSE <<>>

\* the throws branch of App.validateScoreEntry
ThrowsErrors(t) ==
    LET p == ParseInt(t)
    IN IF p = <<>> \/ p[1] < 1
       THEN << FieldError("throws", "Throws must be at least 1") >>
       ELSE IF p[1] > 20
       THEN << FieldError("throws", "Throws cannot exceed 20") >>
       ELSE <<>>

\* (mutant: the fields after the first are not looked at)
SubErrors_Skipped(field, t, tooLow, tooHigh) == <<>>

\* the approaches and putts branches: an empty field is not validated
SubErrors(field, t, tooLow, tooHigh) ==
    IF t.k = "empty" THEN <<>>
    ELSE LET p == ParseInt(t)
         IN IF p = <<>> \/ p[1] < 0 THEN << FieldError(field, tooLow) >>
            ELSE IF p[1] > 19 THEN << FieldError(field, tooHigh) >>
            ELSE <<>>

\* (mutant: the drive is not counted)
Inconsistent_NoDrive(throws, approaches, putts) == approaches + putts > throws

\* approaches + putts > throws - 1
Inconsistent(throws, approaches, putts) == approaches + putts > throws - 1

\* App.validateScoreEntry on the three input texts: the errors array
ValidateScoreEntry(throws, approaches, putts) ==
    LET fields ==
            ThrowsErrors(throws)
            \o SubErrors("approaches", approaches,
                         "Approaches must be 0 or more", "Approaches cannot exceed 19")
            \o SubErrors("putts", putts,
                         "Putts must be 0 or more", "Putts cannot exceed 19")
    IN IF /\ fields = <<>>
          /\ approaches.k # "empty"
          /\ putts.k # "empty"
          /\ Inconsistent(ParseInt(throws)[1], ParseInt(approaches)[1],
                          ParseInt(putts)[1])
       THEN << FieldError("consistency",
                 "Approaches + Putts cannot exceed throws - 1 (need at least 1 drive)") >>
       ELSE fields

\* (mutant: nothing validates)
IsValid_Never(in) == FALSE

\* (mutant: everything validates)
IsValid_Always(in) == TRUE

\* isValid: errors.length === 0
IsValid(in) == ValidateScoreEntry(in.throws, in.approaches, in.putts) = <<>>

\* inputs of the application-level specification: one valid, one invalid
ScoreInputs == { Input(Txt(3), Blank, Blank, Blank),
                 Input(Txt(0), Blank, Blank, Blank) }

\* the check of App.handleNewRound: no incomplete round is stored
MayStartRound == ~(stored # NoRound /\ ~stored.completed)

NewRoundAsked(st, prompted) ==
    [kind |-> "newround", stored |-> st, prompted |-> prompted]

\* App.handleNewRound, the home screen's new-round button: the course list,
\* or the incomplete-round dialog over the home screen (screen "modal")
HandleNewRound ==
    /\ screen = "home"
    /\ screen' = IF MayStartRound THEN "course-select" ELSE "modal"
    /\ last' = NewRoundAsked(stored, ~MayStartRound)
    /\ UNCHANGED <<isOnline, db, local, pendingSync, remote, passes, round,
                   stored, courses, roundsStarted, enqueued, resumeBtn>>

Abandoned(st) == [kind |-> "abandon", round |-> st]

\* App.handleAbandonRound, the dialog's abandon button
HandleAbandonRound ==
    /\ screen = "modal"
    /\ stored' = NoRound
    /\ round' = NoRound
    /\ resumeBtn' = FALSE
    /\ screen' = "course-select"
    /\ last' = Abandoned(stored)
    /\ UNCHANGED <<isOnline, db, local, pendingSync, remote, passes, courses,
                   roundsStarted, enqueued>>

\* a round was created over the snapshot st
Started(st) == [kind |-> "start", replaced |-> st]

HoleMeta(n, par) == [hole_number |-> n, par |-> par, distance |-> Null]

\* the par of the holes of the course of an earlier session
OldPar(n) == 3 + (n % 2)

\* holes.sort((a, b) => a.hole_number - b.hole_number): a stable sort
RECURSIVE Insert(_, _)
Insert(h, s) ==
    IF s = <<>> THEN <<h>>
    ELSE IF h.hole_number < Head(s).hole_number THEN <<h>> \o s
    ELSE <<Head(s)>> \o Insert(h, Tail(s))

RECURSIVE SortHoles(_)
SortHoles(holes) ==
    IF holes = <<>> THEN <<>>
    ELSE Insert(holes[Len(holes)], SortHoles(SubSeq(holes, 1, Len(holes) - 1)))

\* the orders in which a store may hand back a list of holes
Orders(holes) ==
    { s \in [DOMAIN holes -> Range(holes)] : Range(s) = Range(holes) }

NewRound(r, c, isNew, hc, holes) ==
    [round_id |-> r, course_id |-> c, isNewCourse |-> isNew, holeCount |-> hc,
     holes |-> holes, scores |-> <<>>, completed |-> FALSE,
     currentHoleIndex |-> 0]

\* JSON.stringify of a sub-value writes NaN as null
JsonValue(v) == IF v = NaN THEN Null ELSE v

\* Storage.saveCurrentRound then Storage.getCurrentRound: the snapshot
Json(rd) ==
    IF rd = NoRound THEN rd
    ELSE [rd EXCEPT !.scores =
            [i \in DOMAIN rd.scores |->
                [rd.scores[i] EXCEPT !.approaches = JsonValue(@),
                                     !.putts = JsonValue(@)]]]

\* App.handleNewCourseSubmit: a new course, its holes at par 3, and a
\* round on it
HandleNewCourseSubmit(hc) ==
    /\ screen = "course-select"
    /\ LET r == roundsStarted + 1
       IN /\ round' = NewRound(r, r, TRUE, hc, [n \in 1..hc |-> HoleMeta(n, 3)])
          /\ stored' = Json(round')
          /\ roundsStarted' = r
    /\ screen' = "scoring"
    /\ last' = Started(stored)
    /\ UNCHANGED <<isOnline, db, local, pendingSync, remote, passes, courses,
                   enqueued, resumeBtn>>

\* the holes of a course in a collection of hole rows
HolesFound(rows, c) == {h \in rows : h.course_id = c}

\* the holes found, as the list a read hands back (in hole order here)
RECURSIVE HoleList(_, _)
HoleList(found, n) ==
    IF n = 0 THEN <<>>
    ELSE HoleList(found, n - 1)
         \o (IF \E h \in found : h.hole_number = n
             THEN << HoleMeta(n, OldPar(n)) >> ELSE <<>>)

\* the catch block of App.selectCourse
LoadFailed(course) == [kind |-> "load-failed", course |-> course]

\* App.selectCourse: a round on a course of the cached list over the holes
\* the local store has for it; when it has none and the app is online they
\* are read from the spreadsheet (a request that may throw) and stored.
\* The store hands them back in some order and they are sorted; the round
\* takes its holeCount from the course
SelectCourse(course) ==
    /\ screen = "course-select"
    /\ course \in courses
    /\ LET inStore == HolesFound(local.holes, course.course_id)
           fromSheet == HolesFound(BagToSet(remote.Holes), course.course_id)
           loads == inStore = {} /\ isOnline
       IN \E threw \in {FALSE, loads} :
            IF threw
            THEN /\ last' = LoadFailed(course)
                 /\ UNCHANGED <<round, stored, roundsStarted, screen, local>>
            ELSE /\ \E holes \in Orders(HoleList(IF loads THEN fromSheet
                                                   ELSE inStore,
                                                  course.hole_count)) :
                      LET r == roundsStarted + 1
                      IN /\ round' = NewRound(r, course.course_id, FALSE,
                                              course.hole_count, SortHoles(holes))
                         /\ stored' = Json(round')
                         /\ roundsStarted' = r
                 /\ local' = IF loads
                              THEN [local EXCEPT !.holes = PutMany(db, @, fromSheet)]
                              ELSE local
                 /\ screen' = "scoring"
                 /\ last' = Started(stored)
    /\ UNCHANGED <<isOnline, db, pendingSync, remote, passes, courses,
                   enqueued, resumeBtn>>

Entry(r, n, throws, approaches, putts) ==
    [round_id |-> r, hole_number |-> n, throws |-> throws,
     approaches |-> approaches, putts |-> putts]

\* (mutant: parseInt(approaches, 10) || null)
SubValue_Falsy(t) ==
    IF ParseInt(t) = <<>> \/ ParseInt(t)[1] = 0 THEN Null
    ELSE Num(ParseInt(t)[1])

\* approaches ? parseInt(approaches, 10) : null
SubValue(t) ==
    IF t.k = "empty" THEN Null
    ELSE IF ParseInt(t) = <<>> THEN NaN ELSE Num(ParseInt(t)[1])

\* the form with its distance field filled in
WithDistance(in, distance) ==
    [throws |-> in.throws, approaches |-> in.approaches, putts |-> in.putts,
     par |-> in.par, distance |-> distance]

\* the text of the distance field (empty where the form has none)
DistanceText(in) == IF "distance" \in DOMAIN in THEN in.distance ELSE Blank

\* (mutant: the hole takes the form's par and distance on any course)
EditsHole_Always(rd) == TRUE

\* if (round.isNewCourse)
EditsHole(rd) == rd.isNewCourse

\* Utils.generateId: an id that no entry of the round has (the least one)
GenerateId(scores) ==
    LET used == {scores[i].score_id : i \in DOMAIN scores}
    IN CHOOSE id \in 1..(Len(scores) + 1) :
          id \notin used /\ \A x \in 1..(id - 1) : x \in used

\* scoreData: the entry with its score_id
ScoreData(e, id) ==
    [round_id |-> e.round_id, hole_number |-> e.hole_number,
     throws |-> e.throws, approaches |-> e.approaches, putts |-> e.putts,
     score_id |-> id]

\* (mutant: the replacing entry keeps its own new id)
KeepId_Fresh(scoreData, existing) == scoreData

\* scoreData.score_id = round.scores[existingIndex].score_id
KeepId(scoreData, existing) ==
    [scoreData EXCEPT !.score_id = existing.score_id]

\* App.saveCurrentHoleScore: on a new course the active hole takes the par
\* and the distance of the form; the entry of the active hole is replaced in place (keeping
\* its id) or pushed
SaveCurrentHoleScore(rd, in) ==
    LET n == rd.currentHoleIndex + 1
        scoreData == ScoreData(Entry(rd.round_id, n,
                                     OrElse(ParseInt(in.throws), 0),
                                     SubValue(in.approaches),
                                     SubValue(in.putts)),
                               GenerateId(rd.scores))
        holes == IF EditsHole(rd)
                 THEN [rd.holes EXCEPT ![n].par = OrElse(ParseInt(in.par), 3),
                                       ![n].distance = SubValue(DistanceText(in))]
                 ELSE rd.holes
        scores == IF \E i \in DOMAIN rd.scores : rd.scores[i].hole_number = n
                  THEN [i \in DOMAIN rd.scores |->
                          IF rd.scores[i].hole_number = n
                          THEN KeepId(scoreData, rd.scores[i])
                          ELSE rd.scores[i]]
                  ELSE Append(rd.scores, scoreData)
    IN [rd EXCEPT !.holes = holes, !.scores = scores]

\* (mutant: every hole counts as a par 3)
ParOf_Three(holes, score) == 3

\* holes.find(h => h.hole_id === score.hole_id), then hole ? hole.par : 3
ParOf(holes, score) ==
    LET found == {i \in DOMAIN holes : holes[i].hole_number = score.hole_number}
    IN IF found = {} THEN 3
       ELSE holes[CHOOSE i \in found : \A j \in found : i <= j].par

\* Statistics.calculateRunningTotal: per entry, its throws and the par of
\* the hole it belongs to
RECURSIVE CalculateRunningTotal(_, _)
CalculateRunningTotal(scores, holes) ==
    IF scores = <<>> THEN [totalScore |-> 0, totalPar |-> 0]
    ELSE LET rest == CalculateRunningTotal(Tail(scores), holes)
         IN [totalScore |-> Head(scores).throws + rest.totalScore,
             totalPar |-> ParOf(holes, Head(scores)) + rest.totalPar]

\* Utils.getRelativeScore: 'E', '+d' or '-d'
GetRelativeScore(score, par) ==
    IF score = par THEN [sign |-> "E", n |-> 0]
    ELSE IF score > par THEN [sign |-> "+", n |-> score - par]
    ELSE [sign |-> "-", n |-> par - score]

\* App.finishRound: totals, completed = true, persisted, summary screen
FinishRound(rd) ==
    LET totals == CalculateRunningTotal(rd.scores, rd.holes)
    IN [completed |-> TRUE, total_score |-> totals.totalScore,
        total_par |-> totals.totalPar] @@ rd

Rejected(rd, st, in) ==
    [kind |-> "rejected", in |-> in,
     errors |-> ValidateScoreEntry(in.throws, in.approaches, in.putts),
     round |-> rd, stored |-> st]

Submitted(rd, in, proceeded) ==
    [kind |-> "submit", score |-> Score(rd.round_id, rd.currentHoleIndex + 1),
     in |-> in, before |-> rd, proceeded |-> proceeded]

Navigated(rd, in, direction) ==
    [kind |-> "nav", in |-> in, before |-> rd, direction |-> direction]

\* round.holes[holeIndex] is a hole; without one saveCurrentHoleScore
\* throws on hole.hole_id before it has changed anything
HasHole(rd) == rd.currentHoleIndex + 1 \in DOMAIN rd.holes

NoHole(rd) == [kind |-> "no-hole", round |-> rd]

\* App.handleSaveHole
HandleSaveHole(in) ==
    /\ screen = "scoring"
    /\ round # NoRound
    /\ IF ~IsValid(in)
       THEN /\ last' = Rejected(round, stored, in)
            /\ UNCHANGED <<round, stored, screen>>
       ELSE IF ~HasHole(round)
       THEN /\ last' = NoHole(round)
            /\ UNCHANGED <<round, stored, screen>>
       ELSE LET saved == SaveCurrentHoleScore(round, in)
            IN IF round.currentHoleIndex = round.holeCount - 1
               THEN /\ round' = FinishRound(saved)
                    /\ stored' = Json(round')
                    /\ screen' = "summary"
                    /\ last' = Submitted(round, in, FALSE)
               ELSE /\ round' = [saved EXCEPT !.currentHoleIndex = @ + 1]
                    /\ stored' = Json(round')
                    /\ last' = Submitted(round, in, TRUE)
                    /\ UNCHANGED screen
    /\ UNCHANGED <<isOnline, db, local, pendingSync, remote, passes, courses,
                   roundsStarted, enqueued, resumeBtn>>

\* App.navigateHole: forward validates, backward does not (the previous
\* button is disabled on the first hole); the entry is saved in memory
\* either way and the round is persisted only when the index moves
NavigateHole(direction, in) ==
    /\ screen = "scoring"
    /\ round # NoRound
    /\ direction < 0 => round.currentHoleIndex > 0
    /\ IF direction > 0 /\ ~IsValid(in)
       THEN /\ last' = Rejected(round, stored, in)
            /\ UNCHANGED <<round, stored>>
       ELSE IF ~HasHole(round)
       THEN /\ last' = NoHole(round)
            /\ UNCHANGED <<round, stored>>
       ELSE LET saved == SaveCurrentHoleScore(round, in)
                newIndex == round.currentHoleIndex + direction
            IN IF newIndex >= 0 /\ newIndex < round.holeCount
               THEN /\ round' = [saved EXCEPT !.currentHoleIndex = newIndex]
                    /\ stored' = Json(round')
                    /\ last' = IF direction > 0 THEN Submitted(round, in, TRUE)
                               ELSE Navigated(round, in, direction)
               ELSE /\ round' = saved
                    /\ last' = Navigated(round, in, direction)
                    /\ UNCHANGED stored
    /\ UNCHANGED <<isOnline, db, local, pendingSync, remote, passes, screen,
                   courses, roundsStarted, enqueued, resumeBtn>>

\* App.handleBack: on the scoring screen, the leave confirmed, the round is
\* persisted and the home screen shown; the course list just gives way to
\* the home screen
HandleBack ==
    /\ \/ /\ screen = "scoring"
          /\ round # NoRound
          /\ stored' = Json(round)
       \/ /\ screen = "course-select"
          /\ UNCHANGED stored
    /\ screen' = "home"
    /\ last' = Nothing
    /\ UNCHANGED <<isOnline, db, local, pendingSync, remote, passes, round,
                   courses, roundsStarted, enqueued, resumeBtn>>

\* App.checkIncompleteRound: an incomplete snapshot becomes the current
\* round, its holes sorted, and the resume button is shown
InProgressRound(st) == st # NoRound /\ ~st.completed

CheckIncompleteRound(st) ==
    IF InProgressRound(st)
    THEN [st EXCEPT !.holes = SortHoles(@)]
    ELSE NoRound

Restarted(rd) == [kind |-> "restart", before |-> rd]

\* The page is loaded again: the state in memory is gone and App.init runs
\* with the cached data (its pull from the spreadsheet skipped or failed).
Restart ==
    /\ round' = CheckIncompleteRound(stored)
    /\ resumeBtn' = (stored # NoRound /\ ~stored.completed)
    /\ screen' = "home"
    /\ courses' = local.courses
    /\ last' = Restarted(round)
    /\ UNCHANGED <<isOnline, db, local, pendingSync, remote, passes, stored,
                   roundsStarted, enqueued>>

Resumed(st) == [kind |-> "resume", snapshot |-> st]

\* (mutant: the round is resumed on its first hole)
ResumeRound_FirstHole(st) ==
    [st EXCEPT !.holes = SortHoles(@), !.currentHoleIndex = 0]

\* the round App.handleResumeRound makes current: the snapshot, its holes
\* sorted by hole_number
ResumeRound(st) == [st EXCEPT !.holes = SortHoles(@)]

\* the body of App.handleResumeRound: the stored round, whatever it is,
\* becomes the current round on the scoring screen
ResumeStored ==
    /\ stored # NoRound
    /\ round' = ResumeRound(stored)
    /\ screen' = "scoring"
    /\ last' = Resumed(stored)
    /\ UNCHANGED <<isOnline, db, local, pendingSync, remote, passes, stored,
                   courses, roundsStarted, enqueued, resumeBtn>>

\* App.handleResumeRound, from the home screen's resume button
HandleResumeRound ==
    /\ screen = "home"
    /\ resumeBtn
    /\ ResumeStored

\* App.handleContinueRound, the dialog's continue button
HandleContinueRound ==
    /\ screen = "modal"
    /\ ResumeStored

\* ------------------------------------------------------ Save & Finish
\* the remote writes of App.handleFinishRound, in call order; the same
\* records are what its offline branch enqueues
CourseOps(rd) ==
    IF rd.isNewCourse
    THEN << Op("saveCourse", <<Course(rd.course_id, rd.holeCount)>>),
            Op("saveHoles", HolesOf(rd.course_id, rd.holeCount)) >>
    ELSE <<>>

\* the rows of the entries of a round
ScoreRows(rd) ==
    [i \in DOMAIN rd.scores |->
        Score(rd.scores[i].round_id, rd.scores[i].hole_number)]

RoundOps(rd) ==
    << Op("saveRound", <<RoundRow(rd.round_id, rd.course_id)>>),
       Op("saveScores", ScoreRows(rd)),
       Op("updateCourseLastPlayed", <<LastPlayed(rd.course_id, rd.round_id)>>) >>

\* awaiting the calls one after the other: n of them return (a false from
\* updateCourseLastPlayed is not looked at) and then either all are done
\* or the next one throws
RECURSIVE RunOps(_, _, _)
RunOps(rem, ops, online) ==
    IF ops = <<>> THEN { [remote |-> rem, n |-> 0, threw |-> FALSE] }
    ELSE UNION { IF res.outcome = "threw"
                 THEN { [remote |-> res.remote, n |-> 0, threw |-> TRUE] }
                 ELSE { [x EXCEPT !.n = @ + 1] :
                          x \in RunOps(res.remote, Tail(ops), online) } :
                 res \in Replay(rem, Head(ops), online) }

\* the local puts before the course writes and before the round writes
LocalAfterCourse(rd) ==
    IF rd.isNewCourse
    THEN [local EXCEPT
            !.courses = Put(@, Course(rd.course_id, rd.holeCount)),
            !.holes = PutMany(db, @, Range(HolesOf(rd.course_id, rd.holeCount)))]
    ELSE local

LocalAfterRound(rd) ==
    [LocalAfterCourse(rd) EXCEPT
        !.rounds = Put(@, RoundRow(rd.round_id, rd.course_id)),
        !.scores = PutMany(db, @, Range(ScoreRows(rd)))]

\* what the catch block does when a write threw
QueueAfterThrow(q, op) == q

Finished(rd, online, threw, op) ==
    [kind |-> "finish", round |-> rd, online |-> online, threw |-> threw,
     failedOp |-> op]

\* the success path: current round cleared, course cache reloaded, home
FinishDone(rd, loc) ==
    /\ local' = loc
    /\ stored' = NoRound
    /\ round' = NoRound
    /\ courses' = loc.courses
    /\ resumeBtn' = FALSE
    /\ screen' = "home"

\* App.handleFinishRound, the summary screen's Save & Finish
HandleFinishRound ==
    /\ screen = "summary"
    /\ round # NoRound
    /\ LET rd == round
           ops == CourseOps(rd) \o RoundOps(rd)
       IN IF isOnline
          THEN \E res \in RunOps(remote, ops, TRUE) :
                 /\ remote' = res.remote
                 /\ IF res.threw
                    THEN /\ local' = IF res.n < Len(CourseOps(rd))
                                     THEN LocalAfterCourse(rd)
                                     ELSE LocalAfterRound(rd)
                         /\ pendingSync' = QueueAfterThrow(pendingSync, ops[res.n + 1])
                         /\ screen' = "home"
                         /\ last' = Finished(rd, TRUE, TRUE, ops[res.n + 1])
                         /\ UNCHANGED <<round, stored, courses, resumeBtn>>
                    ELSE /\ FinishDone(rd, LocalAfterRound(rd))
                         /\ last' = Finished(rd, TRUE, FALSE, Nothing)
                         /\ UNCHANGED pendingSync
          ELSE /\ pendingSync' = AddAll(pendingSync, ops)
               /\ FinishDone(rd, LocalAfterRound(rd))
               /\ last' = Finished(rd, FALSE, FALSE, Nothing)
               /\ UNCHANGED remote
    /\ UNCHANGED <<isOnline, db, passes, roundsStarted, enqueued>>

\* ------------------------------------------------------- connectivity
\* App.processPendingSync: nothing to do offline or with an empty queue,
\* otherwise SheetsAPI.processPendingSync is called and not awaited by
\* the event handler
AppProcessPendingSync ==
    IF pendingSync = <<>>
    THEN /\ last' = Nothing
         /\ UNCHANGED passes
    ELSE StartPass

\* the browser's online event: App.updateOnlineStatus
GoOnline ==
    /\ ~isOnline
    /\ isOnline' = TRUE
    /\ AppProcessPendingSync
    /\ UNCHANGED <<pendingSync, remote, enqueued, appVars>>

\* the browser's offline event
GoOffline ==
    /\ isOnline
    /\ isOnline' = FALSE
    /\ last' = Nothing
    /\ UNCHANGED <<pendingSync, remote, passes, enqueued, appVars>>

Next ==
    \/ HandleNewRound
    \/ roundsStarted < MaxRounds /\ \E hc \in 1..MaxHoles : HandleNewCourseSubmit(hc)
    \/ roundsStarted < MaxRounds /\ \E c \in courses : SelectCourse(c)
    \/ \E in \in ScoreInputs : HandleSaveHole(in)
    \/ \E d \in {-1, 1}, in \in ScoreInputs : NavigateHole(d, in)
    \/ HandleFinishRound
    \/ GoOnline
    \/ GoOffline
    \/ \E p \in PassIds : DrainStep(p)

Spec == Init /\ [][Next]_vars

\* the event loop runs every settled promise: a pass in flight goes on
FairSpec == Spec /\ WF_vars(\E p \in PassIds : DrainStep(p))

\* ------------------------------------------- the round session alone
\* what the player types in a round: throws only on a par 3, an ace with
\* both sub-values 0 on a par 4, a four with both sub-values and the par
\* left empty, and a form that does not validate (throws 0, approaches
\* without a number)
RoundInputs ==
    { Input(Txt(3), Blank, Blank, Txt(3)),
      Input(Txt(1), Txt(0), Txt(0), Txt(4)),
      Input(Txt(4), Txt(2), Txt(1), Blank),
      Input(Txt(0), Junk, Blank, Txt(3)) }

\* a later session of a player with one synced course, online
InitRound ==
    /\ Init
    /\ isOnline
    /\ db = "idb"
    /\ courses # {}

NextRound ==
    \/ HandleNewRound
    \/ HandleContinueRound
    \/ HandleAbandonRound
    \/ roundsStarted < MaxRounds /\ \E hc \in 1..MaxHoles : HandleNewCourseSubmit(hc)
    \/ roundsStarted < MaxRounds /\ \E c \in courses : SelectCourse(c)
    \/ \E in \in RoundInputs : HandleSaveHole(in)
    \/ \E d \in {-1, 1}, in \in RoundInputs : NavigateHole(d, in)
    \/ HandleBack
    \/ HandleResumeRound
    \/ Restart

SpecRound == InitRound /\ [][NextRound]_vars

\* the round session with Save & Finish on its summary screen
NextRoundFinish ==
    \/ NextRound
    \/ HandleFinishRound

SpecRoundFinish == InitRound /\ [][NextRoundFinish]_vars

\* --------------------------------------- one round after the other
\* rounds played one after the other, each hole scored with three throws:
\* started, left, resumed, abandoned, finished and saved, the page loaded
\* again at any point
SessionInputs == { Input(Txt(3), Blank, Blank, Blank) }

NextSession ==
    \/ HandleNewRound
    \/ HandleContinueRound
    \/ HandleAbandonRound
    \/ roundsStarted < MaxSessions /\ \E hc \in 1..MaxHoles : HandleNewCourseSubmit(hc)
    \/ roundsStarted < MaxSessions /\ \E c \in courses : SelectCourse(c)
    \/ \E in \in SessionInputs : HandleSaveHole(in)
    \/ HandleBack
    \/ HandleResumeRound
    \/ Restart
    \/ HandleFinishRound

SpecSession == InitRound /\ [][NextSession]_vars

\* ------------------------------------------- coming back to a hole
\* element.value = v || '': a sub-value that is null, NaN or 0 shows as the
\* empty field
ShownOrEmpty(v) == IF v.k = "num" /\ v.n # 0 THEN Txt(v.n) ELSE Blank

\* hole.par || 3
ParOrThree(par) == IF par = 0 THEN 3 ELSE par

\* App.renderScoringScreen, the form it leaves: the values of the active
\* hole's entry if it has one, else the hole's par as throws and the
\* sub-values empty; on a new course the par and distance fields show the
\* hole's
RenderScoringScreen(rd) ==
    LET n == rd.currentHoleIndex + 1
        hole == rd.holes[n]
        found == {i \in DOMAIN rd.scores : rd.scores[i].hole_number = n}
        par == IF rd.isNewCourse THEN Txt(ParOrThree(hole.par)) ELSE Blank
        distance == IF rd.isNewCourse THEN ShownOrEmpty(hole.distance) ELSE Blank
    IN IF found # {}
       THEN LET existingScore == rd.scores[CHOOSE i \in found :
                                             \A j \in found : i <= j]
            IN WithDistance(Input(Txt(existingScore.throws),
                                  ShownOrEmpty(existingScore.approaches),
                                  ShownOrEmpty(existingScore.putts), par),
                            distance)
       ELSE WithDistance(Input(Txt(ParOrThree(hole.par)), Blank, Blank, par),
                         distance)

\* the scoring screen is up with the form as it was rendered
Rendered == screen = "scoring" /\ round # NoRound /\ HasHole(round)

\* the round session where the player may also press a button without
\* having touched the form
NextRevisit ==
    \/ NextRound
    \/ Rendered /\ HandleSaveHole(RenderScoringScreen(round))
    \/ Rendered /\ \E d \in {-1, 1} : NavigateHole(d, RenderScoringScreen(round))

SpecRevisit == InitRound /\ [][NextRevisit]_vars

\* ------------------------------------------------- hole metadata
\* forms with the par and the distance fields filled in or left empty
MetaInputs ==
    { WithDistance(Input(Txt(3), Blank, Blank, par), distance) :
        par \in {Blank, Txt(3), Txt(5)}, distance \in {Blank, Txt(250)} }

NextMeta ==
    \/ HandleNewRound
    \/ roundsStarted < MaxRounds /\ \E hc \in 1..MaxHoles : HandleNewCourseSubmit(hc)
    \/ roundsStarted < MaxRounds /\ \E c \in courses : SelectCourse(c)
    \/ \E in \in MetaInputs : HandleSaveHole(in)
    \/ \E d \in {-1, 1}, in \in MetaInputs : NavigateHole(d, in)
    \/ HandleBack
    \/ HandleResumeRound
    \/ Restart

SpecMeta == InitRound /\ [][NextMeta]_vars

\* ------------------------------------ rounds on the fallback store
\* rounds played one after the other, offline or online, where IndexedDB
\* could not be opened: the local collections are localStorage arrays
InitFallback ==
    /\ Init
    /\ db = "ls"
    /\ courses # {}

NextFallback ==
    \/ NextSession
    \/ \E d \in {-1, 1}, in \in SessionInputs : NavigateHole(d, in)

SpecFallback == InitFallback /\ [][NextFallback]_vars

\* ------------------------------------------- the pull from the sheets
\* SheetsAPI.syncFromSheets: the four sheets are read, then each local
\* collection takes the rows of its sheet through Storage.putMany
SyncFromSheets(backend, loc, rem) ==
    [courses |-> PutMany(backend, loc.courses, BagToSet(rem.Courses)),
     holes |-> PutMany(backend, loc.holes, BagToSet(rem.Holes)),
     rounds |-> PutMany(backend, loc.rounds, BagToSet(rem.Rounds)),
     scores |-> PutMany(backend, loc.scores, BagToSet(rem.Scores))]

Pulled(before, q, threw) ==
    [kind |-> "sync", before |-> before, queue |-> q, threw |-> threw]

\* The page is loaded again with the browser online: App.init calls
\* updateOnlineStatus, which starts a drain pass when the queue is not
\* empty and does not wait for it, then health and syncFromSheets (a throw
\* of either leaves the cached data), loadCachedData, checkIncompleteRound
\* and the home screen.
InitOnline ==
    /\ isOnline
    /\ IF pendingSync = <<>>
       THEN passes' = passes
       ELSE /\ FreePass # {}
            /\ LET p == CHOOSE x \in FreePass : \A y \in FreePass : x <= y
               IN passes' = [passes EXCEPT ![p] =
                    [active |-> TRUE, returned |-> FALSE, pending |-> pendingSync,
                     i |-> 0, failed |-> <<>>, sent |-> <<>>, outcomes |-> <<>>,
                     calls |-> 0]]
    /\ \E threw \in BOOLEAN :
         /\ local' = IF threw THEN local ELSE SyncFromSheets(db, local, remote)
         /\ last' = Pulled(local, pendingSync, threw)
    /\ round' = CheckIncompleteRound(stored)
    /\ resumeBtn' = (stored # NoRound /\ ~stored.completed)
    /\ screen' = "home"
    /\ courses' = local'.courses
    /\ UNCHANGED <<isOnline, db, pendingSync, remote, stored, roundsStarted,
                   enqueued>>

\* a session that starts without a connection, on either backend
InitSync ==
    /\ Init
    /\ ~isOnline

\* rounds played offline, the queue drained once the connection is back,
\* rounds played online after that, the page loaded again at any point
NextSync ==
    \/ HandleNewRound
    \/ roundsStarted < MaxRounds /\ \E hc \in 1..MaxHoles : HandleNewCourseSubmit(hc)
    \/ roundsStarted < MaxRounds /\ \E c \in courses : SelectCourse(c)
    \/ \E in \in SessionInputs : HandleSaveHole(in)
    \/ HandleResumeRound
    \/ HandleFinishRound
    \/ GoOnline
    \/ \E p \in PassIds : DrainStep(p)
    \/ InitOnline

SpecSync == InitSync /\ [][NextSync]_vars

\* CONFIG.validation.par
parMin == 2
parMax == 6

\* ------------------------------------------------ the gateway's rows
\* A string is the sequence of its characters; a typed value is null, NaN,
\* a number or a boolean.
Bool(b) == [k |-> "bool", n |-> IF b THEN 1 ELSE 0]

DigitChars == <<"0", "1", "2", "3", "4", "5", "6", "7", "8", "9">>

DigitChar(d) == DigitChars[d + 1]

IsDigit(c) == \E d \in 0..9 : DigitChar(d) = c

DigitValue(c) == CHOOSE d \in 0..9 : DigitChar(d) = c

\* String(n) of an integer n >= 0
RECURSIVE Decimal(_)
Decimal(n) ==
    IF n < 10 THEN << DigitChar(n) >>
    ELSE Decimal(n \div 10) \o << DigitChar(n % 10) >>

\* String(value) of a number or NaN
StringOf(v) ==
    IF v.k = "nan" THEN << "N", "a", "N" >>
    ELSE IF v.n < 0 THEN << "-" >> \o Decimal(0 - v.n)
    ELSE Decimal(v.n)

\* SheetsAPI.prepareRowData, one field: '' for null or undefined, 'TRUE' or
\* 'FALSE' for a boolean, String(value) otherwise
PrepareValue(data, header) ==
    IF header \notin DOMAIN data \/ data[header] = Null THEN << >>
    ELSE IF data[header].k = "bool"
         THEN (IF data[header].n = 1 THEN << "T", "R", "U", "E" >>
               ELSE << "F", "A", "L", "S", "E" >>)
    ELSE StringOf(data[header])

\* SheetsAPI.prepareRowData
PrepareRowData(data, headers) ==
    [header \in headers |-> PrepareValue(data, header)]

RECURSIVE DigitPrefix(_)
DigitPrefix(s) ==
    IF s = << >> \/ ~IsDigit(Head(s)) THEN << >>
    ELSE << Head(s) >> \o DigitPrefix(Tail(s))

RECURSIVE ValueOf(_)
ValueOf(digits) ==
    IF digits = << >> THEN 0
    ELSE 10 * ValueOf(SubSeq(digits, 1, Len(digits) - 1))
         + DigitValue(digits[Len(digits)])

\* parseInt(s, 10) of a string: an optional sign, then the leading digits;
\* NaN without a digit
ParseIntOf(s) ==
    LET signed == s # << >> /\ Head(s) \in {"-", "+"}
        digits == DigitPrefix(IF signed THEN Tail(s) ELSE s)
    IN IF digits = << >> THEN NaN
       ELSE IF signed /\ Head(s) = "-" THEN Num(0 - ValueOf(digits))
       ELSE Num(ValueOf(digits))

\* (mutant: the string '0' counts as no value)
Truthy_NonZero(s) == s # << >> /\ s # << "0" >>

\* a string in a condition: every string but the empty one is truthy
Truthy(s) == s # << >>

\* cell ? parseInt(cell, 10) : null
ParseOrNull(s) == IF Truthy(s) THEN ParseIntOf(s) ELSE Null

\* parseInt(cell, 10) || d: NaN and 0 are falsy
ParseOr(s, d) ==
    LET v == ParseIntOf(s)
    IN IF v.k = "nan" \/ v.n = 0 THEN Num(d) ELSE v

\* SheetsAPI.syncFromSheets, the conversion of a row of each sheet; the
\* other cells are kept as they come
DecodeRow(sheet, row) ==
    [header \in DOMAIN row |->
        CASE sheet = "Holes" /\ header = "hole_number" -> ParseIntOf(row[header])
          [] sheet = "Holes" /\ header = "par" -> ParseOr(row[header], 3)
          [] sheet = "Holes" /\ header = "distance" -> ParseOrNull(row[header])
          [] sheet = "Rounds" /\ header = "completed" ->
                 Bool(row[header] = << "T", "R", "U", "E" >>)
          [] sheet = "Rounds" /\ header \in {"total_score", "total_par"} ->
                 ParseOrNull(row[header])
          [] sheet = "Scores" /\ header \in {"hole_number", "throws"} ->
                 ParseIntOf(row[header])
          [] sheet = "Scores" /\ header \in {"approaches", "putts"} ->
                 ParseOrNull(row[header])
          [] OTHER -> row[header]]

\* CONFIG.sheetHeaders, the typed fields
SheetHeaders(sheet) ==
    CASE sheet = "Holes" -> {"hole_number", "par", "distance"}
      [] sheet = "Rounds" -> {"completed", "total_score", "total_par"}
      [] sheet = "Scores" -> {"hole_number", "throws", "approaches", "putts"}

\* records of the three sheets with values at and within the bounds of
\* CONFIG.validation, the optional ones also null and 0
BoundaryRecords(sheet) ==
    CASE sheet = "Holes" ->
           [hole_number : {Num(1), Num(27)},
            par : {Num(p) : p \in parMin..parMax},
            distance : {Null, Num(0), Num(150), Num(1500)}]
      [] sheet = "Rounds" ->
           [completed : {Bool(TRUE), Bool(FALSE)},
            total_score : {Null, Num(0), Num(54)},
            total_par : {Null, Num(0), Num(108)}]
      [] sheet = "Scores" ->
           [hole_number : {Num(1), Num(18)},
            throws : {Num(1), Num(3), Num(20)},
            approaches : {Null, Num(0), Num(19)},
            putts : {Null, Num(0), Num(10)}]

Synced(sheet, record, row, decoded) ==
    [kind |-> "synced", sheet |-> sheet, record |-> record, row |-> row,
     decoded |-> decoded]

\* a record written through the gateway and read back by syncFromSheets;
\* the gateway hands a cell back as the string it was given
WriteAndSync(sheet, record) ==
    /\ LET row == PrepareRowData(record, SheetHeaders(sheet))
       IN last' = Synced(sheet, record, row, DecodeRow(sheet, row))
    /\ UNCHANGED <<isOnline, db, local, pendingSync, remote, passes, round,
                   stored, screen, courses, roundsStarted, enqueued, resumeBtn>>

NextBoundary ==
    \E sheet \in {"Holes", "Rounds", "Scores"} :
        \E record \in BoundaryRecords(sheet) : WriteAndSync(sheet, record)

SpecBoundary == InitQueue /\ [][NextBoundary]_vars

\* ------------------------------------------------- the par of a hole
\* a three on a hole of a new course, with the par field left empty, set
\* within the configured range, below it and above it
ParInputs ==
    { Input(Txt(3), Blank, Blank, par) : par \in {Blank, Txt(1), Txt(4), Txt(7)} }

NextPar ==
    \/ HandleNewRound
    \/ roundsStarted < MaxRounds /\ \E hc \in 1..MaxHoles : HandleNewCourseSubmit(hc)
    \/ roundsStarted < MaxRounds /\ \E c \in courses : SelectCourse(c)
    \/ \E in \in ParInputs : HandleSaveHole(in)
    \/ HandleBack
    \/ HandleFinishRound

SpecPar == InitRound /\ [][NextPar]_vars

\* ------------------------------------------------------- statistics
\* CONFIG.statistics
minRoundsForAverage == 1
minDataPointsForDetailedStats == 3

StatScore(r, h, throws, approaches, putts) ==
    [round_id |-> r, hole_id |-> h, throws |-> throws,
     approaches |-> approaches, putts |-> putts]

StatRound(r, c, completed) ==
    [round_id |-> r, course_id |-> c, completed |-> completed]

StatHole(h, c, n, par) ==
    [hole_id |-> h, course_id |-> c, hole_number |-> n, par |-> par]

RECURSIVE SumSeq(_)
SumSeq(ns) == IF ns = <<>> THEN 0 ELSE Head(ns) + SumSeq(Tail(ns))

\* Utils.roundTo(Utils.average(ns), 1), in tenths: Math.round(x * 10) is
\* the floor of x * 10 + 1/2
AverageTenths(ns) == (20 * SumSeq(ns) + Len(ns)) \div (2 * Len(ns))

\* v !== null && !isNaN(v)
IsValue(v) == v.k = "num"

\* the values of a sub-value field that are there
SubValues(scores, field) ==
    LET Has(sc) == IsValue(sc[field])
        kept == SelectSeq(scores, Has)
    IN [i \in DOMAIN kept |-> kept[i][field].n]

\* (mutant: the averages are shown from the first value on)
Detailed_FromFirst(values) == Len(values) >= 1

Detailed(values) == Len(values) >= minDataPointsForDetailedStats

\* Statistics.calculateHoleStats; an average is a number of tenths. The
\* throws of an entry are a number (App.validateScoreEntry refuses an entry
\* without), so the filter on the throws keeps every entry of the hole
CalculateHoleStats(holeId, scores) ==
    LET OfHole(sc) == sc.hole_id = holeId
        holeScores == SelectSeq(scores, OfHole)
        throwsValues == [i \in DOMAIN holeScores |-> holeScores[i].throws]
        approachesValues == SubValues(holeScores, "approaches")
        puttsValues == SubValues(holeScores, "putts")
    IN IF holeScores = <<>>
       THEN [hasData |-> FALSE, roundCount |-> 0, avgScore |-> Null,
             avgApproaches |-> Null, avgPutts |-> Null]
       ELSE [hasData |-> Len(throwsValues) >= minRoundsForAverage,
             roundCount |-> Len(throwsValues),
             avgScore |-> IF Len(throwsValues) > 0
                          THEN Num(AverageTenths(throwsValues)) ELSE Null,
             avgApproaches |-> IF Detailed(approachesValues)
                               THEN Num(AverageTenths(approachesValues))
                               ELSE Null,
             avgPutts |-> IF Detailed(puttsValues)
                          THEN Num(AverageTenths(puttsValues)) ELSE Null,
             hasEnoughApproachData |-> Detailed(approachesValues),
             hasEnoughPuttData |-> Detailed(puttsValues)]

\* Statistics.calculateCourseHoleStats
CalculateCourseHoleStats(holes, scores) ==
    [h \in {holes[i].hole_id : i \in DOMAIN holes} |->
        CalculateHoleStats(h, scores)]

RoundStat(r, totalScore, totalPar) ==
    [round_id |-> r, totalScore |-> totalScore,
     relativeToPar |-> totalScore - totalPar]

\* roundStats.sort((a, b) => a.totalScore - b.totalScore): a stable sort
RECURSIVE InsertStat(_, _)
InsertStat(x, sorted) ==
    IF sorted = <<>> THEN <<x>>
    ELSE IF x.totalScore < Head(sorted).totalScore THEN <<x>> \o sorted
    ELSE <<Head(sorted)>> \o InsertStat(x, Tail(sorted))

RECURSIVE SortStats(_)
SortStats(stats) ==
    IF stats = <<>> THEN <<>>
    ELSE InsertStat(stats[Len(stats)], SortStats(SubSeq(stats, 1, Len(stats) - 1)))

\* (mutant: every round handed in is counted)
CompletedOf_All(rounds) == rounds

\* rounds.filter(r => r.completed)
CompletedOf(rounds) ==
    LET Done(r) == r.completed
    IN SelectSeq(rounds, Done)

\* Statistics.calculateCourseStats; an average is a number of tenths
CalculateCourseStats(courseId, rounds, scores, holes) ==
    LET completedRounds == CompletedOf(rounds)
        totalPar == SumSeq([i \in DOMAIN holes |->
                              IF holes[i].par = 0 THEN 3 ELSE holes[i].par])
        TotalOf(r) ==
            LET OfRound(sc) == sc.round_id = r.round_id
                roundScores == SelectSeq(scores, OfRound)
            IN SumSeq([i \in DOMAIN roundScores |-> roundScores[i].throws])
        roundStats == SortStats([i \in DOMAIN completedRounds |->
                         RoundStat(completedRounds[i].round_id,
                                   TotalOf(completedRounds[i]), totalPar)])
    IN IF completedRounds = <<>>
       THEN [hasData |-> FALSE, roundCount |-> 0, avgTotalScore |-> Null,
             avgRelativeToPar |-> Null, bestRound |-> Null,
             worstRound |-> Null]
       ELSE [hasData |-> TRUE,
             roundCount |-> Len(completedRounds),
             avgTotalScore |-> Num(AverageTenths(
                 [i \in DOMAIN roundStats |-> roundStats[i].totalScore])),
             avgRelativeToPar |-> Num(AverageTenths(
                 [i \in DOMAIN roundStats |-> roundStats[i].relativeToPar])),
             bestRound |-> roundStats[1],
             worstRound |-> roundStats[Len(roundStats)],
             totalPar |-> totalPar]

StatsLoaded(course, rounds, scores, holes, holeStats, courseStats) ==
    [kind |-> "stats", course |-> course, rounds |-> rounds,
     scores |-> scores, holes |-> holes, holeStats |-> holeStats,
     courseStats |-> courseStats]

\* the statistics App.selectCourse loads for the course: its holes, its
\* rounds by the course_id index, the scores of its completed rounds
LoadStatistics(course) ==
    /\ last = Nothing
    /\ LET OfCourse(x) == x.course_id = course
           holes == SortHoles(SelectSeq(local.holes, OfCourse))
           rounds == SelectSeq(local.rounds, OfCourse)
           done == CompletedOf(rounds)
           roundIds == {done[i].round_id : i \in DOMAIN done}
           InRounds(sc) == sc.round_id \in roundIds
           scores == IF rounds # <<>> THEN SelectSeq(local.scores, InRounds)
                     ELSE <<>>
       IN last' = StatsLoaded(course, rounds, scores, holes,
                              CalculateCourseHoleStats(holes, scores),
                              CalculateCourseStats(course, rounds, scores, holes))
    /\ UNCHANGED <<isOnline, db, local, pendingSync, remote, passes, round,
                   stored, screen, courses, roundsStarted, enqueued, resumeBtn>>

\* the history: course 1 with two holes and course 2 with one; rounds 1 and
\* 2 completed and round 3 not, on course 1, round 4 completed on course 2
StatHoles ==
    { << StatHole(2, 1, 2, par), StatHole(1, 1, 1, 3), StatHole(3, 2, 1, 5) >> :
        par \in {3, 4} }

StatRounds ==
    { <<>>,
      << StatRound(3, 1, FALSE) >>,
      << StatRound(2, 1, TRUE), StatRound(4, 2, TRUE) >>,
      << StatRound(1, 1, TRUE), StatRound(3, 1, FALSE), StatRound(2, 1, TRUE),
         StatRound(4, 2, TRUE) >> }

\* entries: throws only, both sub-values, one sub-value, a sub-value that
\* is not a number, an entry of the round not completed, one on course 2
StatScores ==
    { StatScore(1, 1, 3, Null, Null),
      StatScore(1, 1, 4, Num(1), Num(2)),
      StatScore(2, 1, 5, Num(2), Null),
      StatScore(2, 2, 2, NaN, Num(0)),
      StatScore(3, 1, 6, Num(3), Num(1)),
      StatScore(4, 3, 3, Num(1), Num(1)) }

RECURSIVE SeqsUpTo(_, _)
SeqsUpTo(S, n) ==
    IF n = 0 THEN { <<>> }
    ELSE LET shorter == SeqsUpTo(S, n - 1)
         IN shorter \cup { Append(q, x) : q \in shorter, x \in S }

InitStats ==
    /\ isOnline = TRUE
    /\ db = "idb"
    /\ \E holes \in StatHoles, rounds \in StatRounds,
          scores \in SeqsUpTo(StatScores, MaxEntries) :
         local = [courses |-> {}, holes |-> holes, rounds |-> rounds,
                  scores |-> scores]
    /\ remote = EmptyRemote
    /\ courses = {}
    /\ pendingSync = <<>>
    /\ passes = [p \in PassIds |-> NoPass]
    /\ round = NoRound
    /\ stored = NoRound
    /\ screen = "course-select"
    /\ roundsStarted = 0
    /\ enqueued = 0
    /\ resumeBtn = FALSE
    /\ last = Nothing

NextStats == \E course \in {1, 2} : LoadStatistics(course)

SpecStats == InitStats /\ [][NextStats]_vars

\* ------------------------------------------------ enqueue, call by call
\* Storage.set: localStorage.setItem stores the value, or throws (the quota
\* is exceeded, or the browser refuses every write) and the catch block
\* logs the error
StorageSet(old, value, accepted) == IF accepted THEN value ELSE old

\* { ...operation, timestamp: new Date().toISOString() }
Stamped(op, t) == [type |-> op.type, data |-> op.data, timestamp |-> t]

Enqueued(op, before, t, returned) ==
    [kind |-> "enqueue", op |-> op, before |-> before, time |-> t,
     returned |-> returned]

\* one call of Storage.addPendingSync, the clock read being the number of
\* the call
AddPendingSyncCall(op) ==
    /\ enqueued < MaxQueue
    /\ enqueued' = enqueued + 1
    /\ \E accepted \in BOOLEAN :
         pendingSync' = StorageSet(pendingSync,
                                   Append(pendingSync, Stamped(op, enqueued')),
                                   accepted)
    /\ last' = Enqueued(op, pendingSync, enqueued', TRUE)
    /\ UNCHANGED <<isOnline, remote, passes, appVars>>

NextEnqueue == \E op \in QueueOps : AddPendingSyncCall(op)

SpecEnqueue == InitQueue /\ [][NextEnqueue]_vars

\* ------------------------------------------------------- start-up
\* (mutant: a failed open ends App.init in its catch block)
InitOutcome_Fatal(opened) ==
    [db |-> IF opened THEN "idb" ELSE "ls", started |-> opened]

\* Storage.init: indexedDB.open succeeds and db is the database, or its
\* onerror sets db to null; the promise resolves either way and App.init
\* goes on
InitOutcome(opened) ==
    [db |-> IF opened THEN "idb" ELSE "ls", started |-> TRUE]

Initialised(opened) == [kind |-> "init", opened |-> opened]

\* App.init with the spreadsheet configured, its pull skipped or failed:
\* Storage.init, the cached data, the incomplete round, the home screen
AppInit ==
    /\ screen = "loading"
    /\ \E opened \in BOOLEAN :
         LET out == InitOutcome(opened)
         IN /\ db' = out.db
            /\ IF out.started
               THEN /\ courses' = local.courses
                    /\ round' = CheckIncompleteRound(stored)
                    /\ resumeBtn' = InProgressRound(stored)
                    /\ screen' = "home"
               ELSE UNCHANGED <<courses, round, resumeBtn, screen>>
            /\ last' = Initialised(opened)
    /\ UNCHANGED <<isOnline, local, pendingSync, remote, passes, stored,
                   roundsStarted, enqueued>>

\* the page is being loaded: Storage.db is still null, a synced course is
\* in the local collections, a round may have been left behind
InitBoot ==
    /\ isOnline = TRUE
    /\ db = "ls"
    /\ local = [courses |-> {OldCourse}, holes |-> OldHoles,
                rounds |-> {}, scores |-> {}]
    /\ remote = [EmptyRemote EXCEPT !.Courses = SetToBag({OldCourse}),
                                     !.Holes = SetToBag(OldHoles)]
    /\ courses = {}
    /\ pendingSync = <<>>
    /\ passes = [p \in PassIds |-> NoPass]
    /\ round = NoRound
    /\ stored = NoRound
    /\ screen = "loading"
    /\ roundsStarted = 0
    /\ enqueued = 0
    /\ resumeBtn = FALSE
    /\ last = Nothing

NextBoot ==
    \/ AppInit
    \/ HandleNewRound
    \/ HandleContinueRound
    \/ roundsStarted < MaxRounds /\ \E hc \in 1..MaxHoles : HandleNewCourseSubmit(hc)
    \/ roundsStarted < MaxRounds /\ \E c \in courses : SelectCourse(c)
    \/ \E in \in SessionInputs : HandleSaveHole(in)
    \/ HandleBack
    \/ HandleFinishRound

SpecBoot == InitBoot /\ [][NextBoot]_vars

\* ------------------------------------------------- the record store
\* Storage's collection methods, call by call.  A record is followed by its
\* key field (course_id, hole_id, round_id or score_id, by the collection)
\* and one indexed field; a behaviour follows the calls on one collection.
Collections == {"courses", "holes", "rounds", "scores"}

Rec(id, ref) == [id |-> id, ref |-> ref]

\* the values of the indexed field: two owners
Refs == {1, 2}
Recs == { Rec(id, ref) : id \in 1..MaxIds, ref \in Refs }

\* a collection: whether its localStorage key or object store exists, and
\* its records in the order getAll returns them
Coll(present, items) == [present |-> present, items |-> items]

\* Storage.get(key) || []
ItemsOf(coll) == IF coll.present THEN coll.items ELSE <<>>

FindIndex(items, id) ==
    IF \E i \in DOMAIN items : items[i].id = id
    THEN CHOOSE i \in DOMAIN items :
            /\ items[i].id = id
            /\ \A j \in 1..(i - 1) : items[j].id # id
    ELSE 0

Filter(items, Keep_(_)) == SelectSeq(items, Keep_)

\* items.find(...) || null: the first match, or nothing
Found(matches) == IF matches = <<>> THEN <<>> ELSE << matches[1] >>

\* an object store holds one record per key, in key order
RECURSIVE ByKey(_, _)
ByKey(items, id) ==
    IF id > MaxIds THEN <<>>
    ELSE (IF \E i \in DOMAIN items : items[i].id = id
          THEN << items[CHOOSE i \in DOMAIN items :
                          /\ items[i].id = id
                          /\ \A j \in DOMAIN items : items[j].id = id => j <= i] >>
          ELSE <<>>) \o ByKey(items, id + 1)

\* what the promise of a call settles to: resolved with records (getAll,
\* getByIndex), with one record or none (getById) or with a success flag,
\* or rejected
Result(ok, items) == [ok |-> ok, items |-> items, rejected |-> FALSE]

Reject == [ok |-> FALSE, items |-> <<>>, rejected |-> TRUE]

StoreOp(name, id, ref, items) ==
    [name |-> name, id |-> id, ref |-> ref, items |-> items]

Reads == {"getAll", "getById", "getByIndex"}

\* the localStorage fallback of each method
LsCall(coll, op) ==
    LET items == ItemsOf(coll)
        IsId(r) == r.id = op.id
        NotId(r) == r.id # op.id
        IsRef(r) == r.ref = op.ref
        i == FindIndex(items, op.items[1].id)
    IN CASE op.name = "getAll" ->
              [coll |-> coll, result |-> Result(TRUE, items)]
         [] op.name = "getById" ->
              [coll |-> coll,
               result |-> Result(TRUE, Found(Filter(items, IsId)))]
         [] op.name = "getByIndex" ->
              [coll |-> coll, result |-> Result(TRUE, Filter(items, IsRef))]
         [] op.name = "put" ->
              [coll |-> Coll(TRUE, IF i > 0
                                   THEN [items EXCEPT ![i] = op.items[1]]
                                   ELSE Append(items, op.items[1])),
               result |-> Result(TRUE, <<>>)]
         [] op.name = "putMany" ->
              [coll |-> Coll(TRUE, op.items), result |-> Result(TRUE, <<>>)]
         [] op.name = "delete" ->
              [coll |-> Coll(TRUE, Filter(items, NotId)),
               result |-> Result(TRUE, <<>>)]
         [] op.name = "clear" ->
              [coll |-> Coll(TRUE, <<>>), result |-> Result(TRUE, <<>>)]

\* the IndexedDB branch of each method, the request succeeding
IdbCall(coll, op) ==
    LET items == coll.items
        IsId(r) == r.id = op.id
        NotId(r) == r.id # op.id
        IsRef(r) == r.ref = op.ref
    IN CASE op.name = "getAll" ->
              [coll |-> coll, result |-> Result(TRUE, items)]
         [] op.name = "getById" ->
              [coll |-> coll, result |-> Result(TRUE, Filter(items, IsId))]
         [] op.name = "getByIndex" ->
              [coll |-> coll, result |-> Result(TRUE, Filter(items, IsRef))]
         [] op.name \in {"put", "putMany"} ->
              [coll |-> Coll(TRUE, ByKey(items \o op.items, 1)),
               result |-> Result(TRUE, <<>>)]
         [] op.name = "delete" ->
              [coll |-> Coll(TRUE, Filter(items, NotId)),
               result |-> Result(TRUE, <<>>)]
         [] op.name = "clear" ->
              [coll |-> Coll(TRUE, <<>>), result |-> Result(TRUE, <<>>)]

\* (mutant: the error handler rejects the promise)
IdbFailed_Rejects(coll, op) == [coll |-> coll, result |-> Reject]

\* the request's or transaction's onerror: [] or null for a read, false
\* for a write, whose transaction leaves the store as it was
IdbFailed(coll, op) ==
    [coll |-> coll, result |-> Result(op.name \in Reads, <<>>)]

Call(backend, coll, op) ==
    IF backend = "idb" THEN IdbCall(coll, op) ELSE LsCall(coll, op)

Other(backend) == IF backend = "idb" THEN "ls" ELSE "idb"

\* a collection nothing was written to yet
Fresh(backend) == Coll(backend = "idb", <<>>)

\* what a call did to the collection and resolved to
StoreCalled(backend, c, op, before, failed, result) ==
    [kind |-> "store", backend |-> backend, collection |-> c, op |-> op,
     before |-> before, failed |-> failed, result |-> result]

ItemLists == { <<>> } \cup { <<r>> : r \in Recs }
                     \cup { <<r, q>> : r \in Recs, q \in Recs }

StoreOps ==
    { StoreOp(n, 0, 0, <<>>) : n \in {"getAll", "clear"} }
    \cup { StoreOp(n, id, 0, <<>>) : n \in {"getById", "delete"}, id \in 1..MaxIds }
    \cup { StoreOp("getByIndex", 0, ref, <<>>) : ref \in Refs }
    \cup { StoreOp("put", 0, 0, <<r>>) : r \in Recs }
    \cup { StoreOp("putMany", 0, 0, l) : l \in ItemLists }

\* one call of a Storage method on the collection followed
StoreCall(op) ==
    \E c \in DOMAIN local, failed \in {FALSE, db = "idb"} :
        /\ LET res == IF failed THEN IdbFailed(local[c], op)
                      ELSE Call(db, local[c], op)
           IN /\ local' = [local EXCEPT ![c] = res.coll]
              /\ last' = StoreCalled(db, c, op, local[c], failed, res.result)
        /\ UNCHANGED <<isOnline, db, pendingSync, remote, passes, round, stored,
                       screen, courses, roundsStarted, enqueued, resumeBtn>>

\* Storage.init done: the object stores exist and are empty, or, on the
\* fallback, no key has been written yet
InitStore ==
    /\ db \in {"idb", "ls"}
    /\ \E c \in Collections : local = [x \in {c} |-> Fresh(db)]
    /\ isOnline = TRUE
    /\ remote = EmptyRemote
    /\ courses = {}
    /\ pendingSync = <<>>
    /\ passes = [p \in PassIds |-> NoPass]
    /\ round = NoRound
    /\ stored = NoRound
    /\ screen = "home"
    /\ roundsStarted = 0
    /\ enqueued = 0
    /\ resumeBtn = FALSE
    /\ last = Nothing

NextStore == \E op \in StoreOps : StoreCall(op)

SpecStore == InitStore /\ [][NextStore]_vars

\* ------------------------------------------------ validation alone
\* every text the three score inputs may hold: nothing, no number, and
\* the integers around the accepted ranges
ThrowsTexts == {Blank, Junk} \cup {Txt(n) : n \in -1..22}
SubTexts == {Blank, Junk} \cup {Txt(n) : n \in -1..20}
AllInputs ==
    { Input(t, a, p, Blank) : t \in ThrowsTexts, a \in SubTexts, p \in SubTexts }

\* the first hole of a round on a new course, nothing recorded yet
InitValidate ==
    /\ isOnline = TRUE
    /\ db = "idb"
    /\ local = [courses |-> {}, holes |-> {}, rounds |-> {}, scores |-> {}]
    /\ remote = EmptyRemote
    /\ courses = {}
    /\ pendingSync = <<>>
    /\ passes = [p \in PassIds |-> NoPass]
    /\ \E hc \in 1..MaxHoles :
         /\ round = NewRound(1, 1, TRUE, hc, [n \in 1..hc |-> HoleMeta(n, 3)])
         /\ stored = round
    /\ screen = "scoring"
    /\ roundsStarted = 1
    /\ enqueued = 0
    /\ resumeBtn = FALSE
    /\ last = Nothing

\* the player fills the form and presses the save button, once
Submit ==
    /\ last = Nothing
    /\ \E in \in AllInputs : HandleSaveHole(in)

NextValidate == Submit

SpecValidate == InitValidate /\ [][NextValidate]_vars

\* ================================================================ claims
Threw(outcomes) == {i \in DOMAIN outcomes : outcomes[i] = "threw"}

\* the operations of ops at the positions in keep, in their order in ops
RECURSIVE Keep(_, _, _)
Keep(ops, keep, i) ==
    IF i > Len(ops) THEN <<>>
    ELSE (IF i \in keep THEN <<ops[i]>> ELSE <<>>) \o Keep(ops, keep, i + 1)

\* C1: when a drain pass returns, every operation of the queue it read has
\* been sent to the gateway, and the queue holds exactly the operations
\* whose call threw, unchanged and in their original relative order.
C1_DrainKeepsFailedInOrder ==
    last.kind = "drain" =>
        /\ Len(last.outcomes) = Len(last.pending)
        /\ pendingSync = Keep(last.pending, Threw(last.outcomes), 1)

\* a pass over three operations: the first and the last threw, the one in
\* between succeeded
C1_Witness ==
    /\ last.kind = "drain"
    /\ last.outcomes = <<"threw", "ok", "threw">>
    /\ Len(pendingSync) = 2

\* the gateway requests a successful replay of op makes: one createRow per
\* row of a save; getRows and, when the row is there, updateRow for an update
Requests(op, outcome) ==
    IF op.type \in CreateTypes THEN Len(op.data)
    ELSE IF outcome = "ok" THEN 2 ELSE 1

RECURSIVE SumRequests(_, _, _)
SumRequests(ops, outcomes, i) ==
    IF i > Len(ops) THEN 0
    ELSE Requests(ops[i], outcomes[i]) + SumRequests(ops, outcomes, i + 1)

C4_DrainResult ==
    last.kind = "drain" =>
        /\ last.result <=> (Threw(last.outcomes) = {})
        /\ last.pending = <<>> =>
              (last.result /\ last.calls = 0 /\ pendingSync = <<>>)

\* a pass returned false after one call succeeded and another threw
C4_Witness ==
    /\ last.kind = "drain"
    /\ ~last.result
    /\ "ok" \in Range(last.outcomes)

\* C2 as stated: an operation leaves the queue only after a replay that
\* made its remote write; a replay that threw or made no write keeps it.
C2_Original ==
    last.kind = "drain" =>
        \A i \in DOMAIN last.pending :
            last.outcomes[i] # "ok" => last.pending[i] \in Range(pendingSync)

\* C5 as stated: at most one drain pass is in flight at any time.
C5_Original == Cardinality(InFlight) <= 1

Sheets == {"Courses", "Holes", "Rounds", "Scores"}

\* C6 as stated: no remote sheet holds two rows for the same entity.
C6_Original ==
    \A sheet \in Sheets : \A row \in BagToSet(remote[sheet]) :
        CopiesIn(row, remote[sheet]) <= 1

\* C7 as stated: when a remote write of Save & Finish throws while the app
\* is online, an operation for that write is in the pending queue.
C7_Original ==
    (last.kind = "finish" /\ last.online /\ last.threw) =>
        last.failedOp \in Range(pendingSync)

LocalHasRound(rd) ==
    /\ RoundRow(rd.round_id, rd.course_id) \in local.rounds
    /\ Range(ScoreRows(rd)) \subseteq local.scores
    /\ rd.isNewCourse =>
         /\ Course(rd.course_id, rd.holeCount) \in local.courses
         /\ Range(HolesOf(rd.course_id, rd.holeCount)) \subseteq local.holes

\* C8 as stated: when a remote write of Save & Finish throws, the round,
\* its scores and (new course) the course and its holes are in the local
\* collections when the handler ends, and the home screen is shown.
C8_Original ==
    (last.kind = "finish" /\ last.threw) =>
        (LocalHasRound(last.round) /\ screen = "home")

\* C9 as stated: online with a non-empty queue, a drain pass is eventually
\* in flight (or the queue has been emptied), without a further
\* connectivity event.
C9_Original ==
    (isOnline /\ pendingSync # <<>> /\ FreePass # {})
        ~> (InFlight # {} \/ pendingSync = <<>>)

\* C10 as stated: when a hole is submitted and the round goes on to the
\* next hole, its score is in the remote Scores sheet or in an operation
\* of the pending queue.
C10_Original ==
    (last.kind = "submit" /\ last.proceeded) =>
        \/ BagIn(last.score, remote.Scores)
        \/ \E i \in DOMAIN pendingSync :
              /\ pendingSync[i].type = "saveScores"
              /\ last.score \in Range(pendingSync[i].data)

\* ------------------------------------------------- the round session
EntriesOf(rd) == IF rd = NoRound THEN {} ELSE Range(rd.scores)

SubValueOk(v) == v = Null \/ (v.k = "num" /\ v.n >= 0)

EntryOk(e) ==
    /\ e.throws >= 1
    /\ e.throws <= 20
    /\ SubValueOk(e.approaches)
    /\ SubValueOk(e.putts)
    /\ (e.approaches.k = "num" /\ e.putts.k = "num") =>
          e.approaches.n + e.putts.n <= e.throws - 1

\* C11 as stated: every entry of the current round, in memory and in the
\* persisted snapshot, has throws in 1..20, each present sub-value >= 0
\* and, with both present, approaches + putts <= throws - 1.
C11_Original == \A e \in EntriesOf(round) \cup EntriesOf(stored) : EntryOk(e)

Fields == {"throws", "approaches", "putts", "consistency"}

\* C12: when validation fails in handleSaveHole or in a forward
\* navigateHole, the errors shown are a non-empty list of (field, message)
\* records and the round in memory and its persisted snapshot are what
\* they were before the call.
C12_RejectedLeavesRound ==
    last.kind = "rejected" =>
        /\ last.errors # <<>>
        /\ \A i \in DOMAIN last.errors : last.errors[i].field \in Fields
        /\ round = last.round
        /\ stored = last.stored

\* a forward navigation was rejected on the second hole of a round that
\* has an entry recorded
C12_Witness ==
    /\ last.kind = "rejected"
    /\ round.currentHoleIndex = 1
    /\ Len(round.scores) >= 1
    /\ Len(last.errors) = 2

\* the text of a field satisfies its rule
ThrowsRule(t) == t.k = "int" /\ t.n >= 1 /\ t.n <= 20
SubRule(t) == t.k = "empty" \/ (t.k = "int" /\ t.n >= 0 /\ t.n <= 19)
SumRule(in) ==
    (in.approaches.k = "int" /\ in.putts.k = "int") =>
        in.approaches.n + in.putts.n <= in.throws.n - 1
FourRules(in) ==
    ThrowsRule(in.throws) /\ SubRule(in.approaches) /\ SubRule(in.putts)
    /\ SumRule(in)

Handled == last.kind \in {"rejected", "submit"}

EntryFor(rd, n) ==
    {Entry(rd.scores[i].round_id, rd.scores[i].hole_number, rd.scores[i].throws,
           rd.scores[i].approaches, rd.scores[i].putts) :
        i \in {j \in DOMAIN rd.scores : rd.scores[j].hole_number = n}}

Expected(t) == IF t.k = "empty" THEN Null ELSE Num(t.n)

C14_ThrowsOutOfRange ==
    (Handled /\ ~ThrowsRule(last.in.throws)) =>
        /\ last.kind = "rejected"
        /\ Cardinality({i \in DOMAIN last.errors :
                          last.errors[i].field = "throws"}) = 1
        /\ last.errors[1].field = "throws"
        /\ (last.in.throws.k = "int" /\ last.in.throws.n < 1) =>
              last.errors[1].message = "Throws must be at least 1"
        /\ (last.in.throws.k = "int" /\ last.in.throws.n > 20) =>
              last.errors[1].message = "Throws cannot exceed 20"
        /\ round.scores = <<>>
        /\ stored.scores = <<>>

\* a throws of 21 was rejected
C14_Witness ==
    /\ last.kind = "rejected"
    /\ last.in.throws = Txt(21)
    /\ last.errors = << FieldError("throws", "Throws cannot exceed 20") >>

ErrorsShown == IF last.kind = "rejected" THEN last.errors ELSE <<>>

BothPresent(in) == in.approaches.k # "empty" /\ in.putts.k # "empty"

Count(errors, field) ==
    Cardinality({i \in DOMAIN errors : errors[i].field = field})

\* C16: the result holds one error for each of throws, approaches and
\* putts that breaks its rule and none for a field that keeps it, and a
\* consistency error only when no field error is there.
C16_AllFieldErrors ==
    Handled =>
        /\ Count(ErrorsShown, "throws") = IF ThrowsRule(last.in.throws) THEN 0 ELSE 1
        /\ Count(ErrorsShown, "approaches") = IF SubRule(last.in.approaches) THEN 0 ELSE 1
        /\ Count(ErrorsShown, "putts") = IF SubRule(last.in.putts) THEN 0 ELSE 1
        /\ Count(ErrorsShown, "consistency") > 0 => Len(ErrorsShown) = 1

\* throws 0, approaches -1 and putts 20 gave three errors
C16_Witness ==
    /\ last.kind = "rejected"
    /\ last.in = Input(Txt(0), Txt(-1), Txt(20), Blank)
    /\ Len(last.errors) = 3

RECURSIVE SumThrows(_)
SumThrows(scores) ==
    IF scores = <<>> THEN 0 ELSE Head(scores).throws + SumThrows(Tail(scores))

RECURSIVE SumPar(_)
SumPar(holes) ==
    IF holes = <<>> THEN 0 ELSE Head(holes).par + SumPar(Tail(holes))

\* the submit of the last hole: handleSaveHole went on to finishRound
Completing == last.kind = "submit" /\ ~last.proceeded

\* C17: when the last hole is submitted the round is completed, its
\* total_score is the sum of throws over all its entries, its total_par
\* the sum of par over all holes of the course, and the relative score of
\* the summary is 'E' exactly when the two are equal.
C17_TotalsAtCompletion ==
    Completing =>
        /\ round.completed
        /\ round.total_score = SumThrows(round.scores)
        /\ round.total_par = SumPar(round.holes)
        /\ Len(round.holes) = round.holeCount
        /\ (GetRelativeScore(round.total_score, round.total_par).sign = "E")
              <=> (round.total_score = round.total_par)

\* a round on a new course with pars 3 and 4 was completed with 4 throws
\* and an ace: 5 against a par of 7
C17_Witness ==
    /\ Completing
    /\ round.holeCount = 2
    /\ round.holes[1].par = 3 /\ round.holes[2].par = 4
    /\ round.scores[1].throws = 4 /\ round.scores[2].throws = 1
    /\ round.total_score = 5 /\ round.total_par = 7
    /\ GetRelativeScore(round.total_score, round.total_par) = [sign |-> "-", n |-> 2]

Stepped == last.kind \in {"submit", "nav"}

\* C18 as stated: no submit or navigation is applied to a round that is
\* already completed.
C18_Original == Stepped => ~last.before.completed

\* C19 as stated: after every accepted submit or navigation step the
\* current-round snapshot is the round in memory.
C19_Original == Stepped => stored = Json(round)

StrictlySorted(holes) ==
    \A i \in DOMAIN holes : \A j \in DOMAIN holes :
        i < j => holes[i].hole_number < holes[j].hole_number

InProgress(rd) == rd # NoRound /\ ~rd.completed

Saved(rd) == rd.completed /\ LocalHasRound(rd)

\* C21: while an incomplete round is stored, App.handleNewRound creates no
\* round and opens the dialog; a round is created over a stored round only
\* when that round was completed and saved (an abandoned one is cleared
\* before the next is created).
C21_Original ==
    /\ (last.kind = "newround" /\ InProgress(last.stored)) =>
            /\ last.prompted
            /\ screen = "modal"
            /\ stored = last.stored
    /\ (last.kind = "start" /\ last.replaced # NoRound) => Saved(last.replaced)

\* two results are the same up to the order of the records
SameResult(a, b) ==
    /\ a.rejected = b.rejected
    /\ a.ok = b.ok
    /\ Range(a.items) = Range(b.items)

OneEach(items) ==
    \A i, j \in DOMAIN items : items[i].id = items[j].id => i = j

ReadOps == { op \in StoreOps : op.name \in Reads }

\* the same records held by the other backend
Twin(coll) == Coll(TRUE, ByKey(ItemsOf(coll), 1))

\* C22: from the same records (one per id) the same call resolves to the
\* same result on the IndexedDB backend and on the localStorage fallback,
\* as sets of records, and so does every read that follows it.
C22_Original ==
    (last.kind = "store" /\ ~last.failed /\ OneEach(ItemsOf(last.before))) =>
        LET mine == Call(db, last.before, last.op)
            theirs == Call(Other(db), Twin(last.before), last.op)
        IN /\ SameResult(mine.result, theirs.result)
           /\ \A rd \in ReadOps :
                 SameResult(Call(db, mine.coll, rd).result,
                            Call(Other(db), theirs.coll, rd).result)

WithId(items, id) == {i \in DOMAIN items : items[i].id = id}

Others(items, id) == {items[i] : i \in DOMAIN items \ WithId(items, id)}

\* the collection the calls of the behaviour are made on
Followed == local[last.collection]

PutDone == last.kind = "store" /\ last.op.name = "put" /\ ~last.failed

\* C23: after a put that succeeded the collection holds the record put and
\* no other record with its id, the records with another id are as before,
\* and the same put again changes nothing.
C23_Original ==
    PutDone =>
        LET r == last.op.items[1]
            now == ItemsOf(Followed)
        IN /\ \E i \in DOMAIN now : now[i] = r /\ WithId(now, r.id) = {i}
           /\ Others(now, r.id) = Others(ItemsOf(last.before), r.id)
           /\ Call(db, Followed, last.op).coll = Followed

\* C24: every call resolves, none rejects; getAll resolves to the records
\* of the collection, to no record when the collection was never written,
\* and a call whose request failed resolves to no record (a read) or to
\* false (a write) and leaves the collection as it was.
C24_NeverFails ==
    last.kind = "store" =>
        /\ ~last.result.rejected
        /\ last.op.name = "getAll" =>
              /\ last.result.ok
              /\ ~last.failed => last.result.items = ItemsOf(last.before)
              /\ ~last.before.present => last.result.items = <<>>
        /\ last.failed =>
              /\ last.result.items = <<>>
              /\ last.result.ok = (last.op.name \in Reads)
              /\ Followed = last.before

\* getAll failed on an object store that holds a record and resolved to
\* no record
C24_Witness ==
    /\ last.kind = "store"
    /\ last.op.name = "getAll"
    /\ last.failed
    /\ last.before.items # <<>>
    /\ last.result = Result(TRUE, <<>>)

C26_Original ==
    last.kind = "enqueue" =>
        /\ last.returned
        /\ pendingSync = Append(last.before, Stamped(last.op, last.time))

\* the entries handed to the statistics that are of hole h, and those of
\* them that carry a sub-value
OfHoleAt(scores, h) == {i \in DOMAIN scores : scores[i].hole_id = h}

CarryingAt(scores, h, field) ==
    {i \in OfHoleAt(scores, h) : scores[i][field].k = "num"}

RECURSIVE SumAt(_, _, _)
SumAt(scores, I, field) ==
    IF I = {} THEN 0
    ELSE LET i == CHOOSE x \in I : TRUE
         IN scores[i][field].n + SumAt(scores, I \ {i}, field)

\* t tenths is sum / n rounded to one decimal, the half upwards
IsRounded(t, sum, n) ==
    /\ 2 * n * t <= 20 * sum + n
    /\ 20 * sum + n < 2 * n * (t + 1)

\* a flag of a statistics record that is there and true
Flag(st, f) == f \in DOMAIN st /\ st[f]

SubValueStat(st, avg, flag, scores, h, field) ==
    LET I == CarryingAt(scores, h, field)
    IN /\ Flag(st, flag) <=> Cardinality(I) >= 3
       /\ IF Cardinality(I) >= 3
          THEN /\ st[avg].k = "num"
               /\ IsRounded(st[avg].n, SumAt(scores, I, field), Cardinality(I))
          ELSE st[avg] = Null

\* C27: for every hole of the course, the average of approaches (of putts)
\* is there, and its flag set, exactly when at least 3 entries of the hole
\* carry the sub-value, and it is the average of those entries, rounded to
\* one decimal; the average score is there exactly when the hole has an
\* entry.
C27_DetailedFromThree ==
    last.kind = "stats" =>
        \A h \in DOMAIN last.holeStats :
            LET st == last.holeStats[h]
            IN /\ SubValueStat(st, "avgApproaches", "hasEnoughApproachData",
                               last.scores, h, "approaches")
               /\ SubValueStat(st, "avgPutts", "hasEnoughPuttData",
                               last.scores, h, "putts")
               /\ (st.avgScore # Null) <=> (OfHoleAt(last.scores, h) # {})

\* hole 1 has four entries, two of them with approaches: its average score
\* is there, its average of approaches is not
C27_Witness ==
    /\ last.kind = "stats"
    /\ Cardinality(OfHoleAt(last.scores, 1)) = 4
    /\ Cardinality(CarryingAt(last.scores, 1, "approaches")) = 2
    /\ last.holeStats[1].avgScore # Null
    /\ last.holeStats[1].avgApproaches = Null
    /\ ~last.holeStats[1].hasEnoughApproachData

\* the completed rounds of the course in the local collection, and the
\* total of a round over the local scores
DoneAt(course) ==
    {i \in DOMAIN local.rounds :
        local.rounds[i].course_id = course /\ local.rounds[i].completed}

RECURSIVE ThrowsAt(_, _)
ThrowsAt(scores, I) ==
    IF I = {} THEN 0
    ELSE LET i == CHOOSE x \in I : TRUE
         IN scores[i].throws + ThrowsAt(scores, I \ {i})

TotalAt(r) ==
    ThrowsAt(local.scores,
             {i \in DOMAIN local.scores : local.scores[i].round_id = r})

RECURSIVE ParAt(_, _)
ParAt(holes, I) ==
    IF I = {} THEN 0
    ELSE LET i == CHOOSE x \in I : TRUE
         IN holes[i].par + ParAt(holes, I \ {i})

\* C28: the course statistics loaded when a course is selected count the
\* completed rounds of that course and no other round: roundCount is their
\* number, totalPar the sum of the pars of the course's holes, bestRound
\* one of them with the least total score and worstRound one with the
\* greatest; with none there is no data.
C28_CompletedRoundsOnly ==
    last.kind = "stats" =>
        LET cs == last.courseStats
            done == DoneAt(last.course)
            totals == {TotalAt(local.rounds[i].round_id) : i \in done}
            ids == {local.rounds[i].round_id : i \in done}
        IN IF done = {}
           THEN ~cs.hasData /\ cs.roundCount = 0 /\ cs.bestRound = Null
                /\ cs.worstRound = Null
           ELSE /\ cs.hasData
                /\ cs.roundCount = Cardinality(done)
                /\ cs.totalPar =
                      ParAt(local.holes, {i \in DOMAIN local.holes :
                                            local.holes[i].course_id = last.course})
                /\ cs.bestRound.round_id \in ids
                /\ cs.worstRound.round_id \in ids
                /\ cs.bestRound.totalScore = TotalAt(cs.bestRound.round_id)
                /\ cs.worstRound.totalScore = TotalAt(cs.worstRound.round_id)
                /\ \A t \in totals : /\ cs.bestRound.totalScore <= t
                                      /\ t <= cs.worstRound.totalScore

\* course 1 with two completed rounds of different totals and a third
\* round, not completed, that has the highest entry
C28_Witness ==
    /\ last.kind = "stats"
    /\ last.course = 1
    /\ Len(last.rounds) = 3
    /\ last.courseStats.roundCount = 2
    /\ last.courseStats.totalPar = 7
    /\ last.courseStats.bestRound.totalScore < last.courseStats.worstRound.totalScore
    /\ \E i \in DOMAIN local.scores : local.scores[i].round_id = 3

ParsWithin(holes) ==
    \A i \in DOMAIN holes : parMin <= holes[i].par /\ holes[i].par <= parMax

\* C30: every hole of the current round, and every hole of a round that
\* Save & Finish writes to the local store, the gateway or the queue, has
\* a par between 2 and 6.
C30_Original ==
    /\ round # NoRound => ParsWithin(round.holes)
    /\ stored # NoRound => ParsWithin(stored.holes)
    /\ last.kind = "finish" => ParsWithin(last.round.holes)

\* the fields whose typed value the conversion has to give back
TypedFields ==
    {"completed", "total_score", "total_par", "hole_number", "par",
     "distance", "throws", "approaches", "putts"}

\* C29: a record encoded by prepareRowData (every cell a string, 'TRUE' or
\* 'FALSE' for a boolean, '' for null) and decoded by syncFromSheets has
\* its original typed value in every typed field.
C29_RoundTrip ==
    last.kind = "synced" =>
        /\ \A f \in DOMAIN last.record \cap TypedFields :
              last.decoded[f] = last.record[f]
        /\ \A f \in DOMAIN last.row :
              /\ last.record[f] = Null <=> last.row[f] = << >>
              /\ last.record[f] = Bool(TRUE) <=> last.row[f] = << "T", "R", "U", "E" >>

\* a score with 20 throws, no approaches and 0 putts went through
C29_Witness ==
    /\ last.kind = "synced"
    /\ last.sheet = "Scores"
    /\ last.row.throws = << "2", "0" >>
    /\ last.row.approaches = << >>
    /\ last.row.putts = << "0" >>
    /\ last.decoded.throws = Num(20)
    /\ last.decoded.approaches = Null
    /\ last.decoded.putts = Num(0)

\* the pass that returns in this step
Returning(p) == passes[p].active /\ ~passes'[p].active

\* C31: an operation enqueued while a drain pass is in flight (it stands in
\* the queue behind the operations the pass read) is still in the queue
\* when that pass returns.
C31_Original ==
    [][\A p \in PassIds :
         Returning(p) =>
            \A i \in DOMAIN pendingSync :
                i > Len(passes[p].pending) =>
                    \E j \in DOMAIN pendingSync' : pendingSync'[j] = pendingSync[i]]_vars

\* the kinds of the operations at the end of the queue
LastTypes(q, n) ==
    [i \in 1..n |-> q[Len(q) - n + i].type]

\* an offline Save & Finish has queued its operations in the order
\* course, holes, round, scores, last-played update
QueuedInOrder ==
    (last.kind = "finish" /\ ~last.online) =>
        IF last.round.isNewCourse
        THEN /\ Len(pendingSync) >= 5
             /\ LastTypes(pendingSync, 5) =
                    << "saveCourse", "saveHoles", "saveRound", "saveScores",
                       "updateCourseLastPlayed" >>
        ELSE /\ Len(pendingSync) >= 3
             /\ LastTypes(pendingSync, 3) =
                    << "saveRound", "saveScores", "updateCourseLastPlayed" >>

\* the spreadsheet has no hole without its course and no score without its
\* round
ParentsFirst ==
    /\ \A h \in BagToSet(remote.Holes) :
          \E c \in BagToSet(remote.Courses) : c.course_id = h.course_id
    /\ \A sc \in BagToSet(remote.Scores) :
          \E r \in BagToSet(remote.Rounds) : r.round_id = sc.round_id

\* C32: the operations of one Save & Finish are queued in the order course,
\* holes, round, scores, last-played update, and the gateway never receives
\* the holes of a course before the course was created, nor the scores of
\* a round before the round was.
C32_Original == QueuedInOrder /\ ParentsFirst

\* the active hole index is one of the round's
IndexInRange(rd) ==
    /\ 0 <= rd.currentHoleIndex
    /\ rd.currentHoleIndex < rd.holeCount

\* C33: in every state of a round in progress the active hole index is
\* within 0 .. holeCount - 1 and round.holes has a hole at that index.
C33_Original ==
    (round # NoRound /\ ~round.completed) =>
        IndexInRange(round) /\ HasHole(round)

\* the same round before and after the step
SameRound == round # NoRound /\ round' # NoRound /\ round'.round_id = round.round_id

\* the entries of the holes before the active one
PassedEntries(rd) ==
    {e \in EntriesOf(rd) : e.hole_number <= rd.currentHoleIndex}

\* C34: the active hole index increases only in a step whose form values
\* satisfy the four rules, and then by one; a backward step from a later
\* hole moves the index back by one whatever the form holds; and the
\* entries of the holes before the active one are valid.
C34_ForwardOnlyValid ==
    [][SameRound =>
         /\ round'.currentHoleIndex > round.currentHoleIndex =>
               /\ last'.kind = "submit"
               /\ FourRules(last'.in)
               /\ round'.currentHoleIndex = round.currentHoleIndex + 1
         /\ (last'.kind = "nav" /\ last'.direction < 0
                /\ round.currentHoleIndex > 0 /\ HasHole(round)) =>
               round'.currentHoleIndex = round.currentHoleIndex - 1
         /\ \A e \in PassedEntries(round') : EntryOk(e)]_vars

\* back on hole 2, whose entry a backward step recorded from an invalid
\* form, the player is refused the step forward
C34_Witness ==
    /\ last.kind = "rejected"
    /\ round # NoRound
    /\ round.currentHoleIndex = 1
    /\ \E e \in EntriesOf(round) : e.hole_number = 2 /\ ~EntryOk(e)

\* the entries of hole n, by their place in round.scores
PlacesOf(rd, n) == {i \in DOMAIN rd.scores : rd.scores[i].hole_number = n}

\* the round became completed in this step
Completes == round' # NoRound /\ round'.completed /\ (round = NoRound \/ ~round.completed)

\* C35: a round has at most one entry per hole; a step that saves a hole
\* leaves every entry in its place with its score_id; and when the
\* round becomes completed it has exactly one entry for each hole
\* 1 .. holeCount.
C35_OneEntryPerHole ==
    [][/\ round' # NoRound =>
            \A n \in 1..round'.holeCount : Cardinality(PlacesOf(round', n)) <= 1
       /\ (SameRound /\ last'.kind \in {"submit", "nav"}) =>
            \A i \in DOMAIN round.scores :
                /\ i \in DOMAIN round'.scores
                /\ round'.scores[i].hole_number = round.scores[i].hole_number
                /\ round'.scores[i].score_id = round.scores[i].score_id
       /\ Completes =>
            /\ Len(round'.scores) = round'.holeCount
            /\ \A n \in 1..round'.holeCount :
                  Cardinality(PlacesOf(round', n)) = 1]_vars

\* the last hole, which had an entry from a step back, was submitted with
\* other throws: the entry is replaced in its place with its id and the
\* round is completed with its two entries
C35_Witness ==
    /\ last.kind = "submit"
    /\ round # NoRound
    /\ round.completed
    /\ Len(last.before.scores) = 2
    /\ Len(round.scores) = 2
    /\ last.before.scores[2].throws # round.scores[2].throws
    /\ last.before.scores[2].score_id = round.scores[2].score_id
    /\ round.scores[1].score_id # round.scores[2].score_id

\* the three values of the entry of hole n, if it has one
ValuesOf(rd, n) ==
    {<<rd.scores[i].throws, rd.scores[i].approaches, rd.scores[i].putts>> :
        i \in PlacesOf(rd, n)}

\* C36: a save or navigation step taken with the form as it was rendered
\* for a hole that has a valid entry leaves the three values of that entry
\* unchanged, sub-values equal to 0 included.
C36_Original ==
    [][(/\ SameRound
        /\ Rendered
        /\ last'.kind \in {"submit", "nav"}
        /\ last'.in = RenderScoringScreen(round)
        /\ \E e \in EntriesOf(round) :
              e.hole_number = round.currentHoleIndex + 1 /\ EntryOk(e))
       => ValuesOf(round', round.currentHoleIndex + 1)
            = ValuesOf(round, round.currentHoleIndex + 1)]_vars

\* C37: a save or navigation step of a round on a course that existed
\* leaves every hole of the round as it was; on a new course it leaves
\* every hole but the active one as it was, and the active one keeps its
\* number.
C37_MetadataFrame ==
    [][(SameRound /\ last'.kind \in {"submit", "nav", "rejected", "no-hole"}) =>
         /\ DOMAIN round'.holes = DOMAIN round.holes
         /\ \A n \in DOMAIN round.holes :
               /\ round'.holes[n].hole_number = round.holes[n].hole_number
               /\ (~round.isNewCourse \/ n # round.currentHoleIndex + 1) =>
                     round'.holes[n] = round.holes[n]]_vars

\* on a cached course a hole of par 4 was saved while the form held a par
\* of 5 and a distance: the hole has its par and no distance
C37_Witness ==
    /\ last.kind = "submit"
    /\ round # NoRound
    /\ ~round.isNewCourse
    /\ last.in.par = Txt(5)
    /\ last.in.distance = Txt(250)
    /\ last.before.currentHoleIndex = 0
    /\ round.holes[1].par = 4
    /\ round.holes[1].distance = Null

\* C38: Save & Finish only adds to the local store: the hole and score
\* records that were in the local collections before the call are there
\* after it.
C38_Original ==
    [][last'.kind = "finish" =>
         /\ local.holes \subseteq local'.holes
         /\ local.scores \subseteq local'.scores]_vars

\* C39: the snapshot of a completed round in current-round storage is
\* overwritten or cleared only by a step after which the round's row and
\* its scores are in the local rounds and scores collections.
C39_Original ==
    [][(stored # NoRound /\ stored.completed /\ stored' # stored) =>
         /\ RoundRow(stored.round_id, stored.course_id) \in local'.rounds
         /\ Range(ScoreRows(stored)) \subseteq local'.scores]_vars

\* the rows of one sheet whose append is still in the queue
Waiting(q, sheet) ==
    UNION { Range(q[i].data) :
              i \in {j \in DOMAIN q : /\ q[j].type \in CreateTypes
                                      /\ SheetOf(q[j].type) = sheet} }

\* C40: a pull from the sheets leaves in each local collection every
\* record of it whose append to the sheet is still in the pending queue,
\* on IndexedDB and on the localStorage fallback.
C40_Original ==
    [][last'.kind = "sync" =>
         /\ local.courses \cap Waiting(pendingSync, "Courses") \subseteq local'.courses
         /\ local.holes \cap Waiting(pendingSync, "Holes") \subseteq local'.holes
         /\ local.rounds \cap Waiting(pendingSync, "Rounds") \subseteq local'.rounds
         /\ local.scores \cap Waiting(pendingSync, "Scores") \subseteq local'.scores]_vars

====
